---- MODULE Spec2Model ----
(***************************************************************************)
(* Peony: the thought lifecycle and its SQLite-backed store                *)
(* (internal/storage/store.go, internal/storage/migrate.go, cmd/peony).    *)
(*                                                                         *)
(* The database is the record db: the rows of the thoughts and events      *)
(* tables and the sqlite_sequence counters of their AUTOINCREMENT keys.    *)
(* Every Store method is an operator from the database before the call to  *)
(* a result (ok, err, db after the call).  A NULL column is the empty set  *)
(* and a non-NULL value v is {v}.  Timestamps are instants of the clock    *)
(* now, one instant being 50 ms; a row holds the instant, and Format is    *)
(* the RFC3339Nano text SQLite stores and compares for it.  Strings that   *)
(* the code trims are sequences of characters.                             *)
(*                                                                         *)
(* Foreign keys are modelled as not enforced (SQLite's default): what an   *)
(* enforcing connection does, rejecting the insert of an event without a   *)
(* thought, is the failure of that insert, which the fault input covers.   *)
(*                                                                         *)
(* A call is a step when it succeeds; a call that returns an error is no   *)
(* step: what it leaves behind is what its operator returns in the state   *)
(* it is made in, and the fault argument is the statement at which the     *)
(* database fails it.  The clock advances by one over every successful     *)
(* call that reads it and whenever time passes without a call (Tick);      *)
(* core.SettleDuration is set once from the configuration, before the      *)
(* first call.                                                             *)
(*                                                                         *)
(* last is the successful call whose result the caller holds (op, id); arg *)
(* is its argument: the content, the event kind, the next state, or for    *)
(* ReindexThoughtIDs the old ids in their new order.                       *)
(*                                                                         *)
(* Spec is the store under every call; ReindexSpec is a session of adds    *)
(* and releases followed by reindexes, over more ids and fewer events.     *)
(*                                                                         *)
(* notice.file is the file peony_last_tendReady_count of the temporary     *)
(* directory, absent ({}) or holding a text ({text}); notice.calls is      *)
(* history only: the counts DidCountTendChange was called with and what it *)
(* returned.  NoticeSpec is a run of such calls; MainSpec is a run of      *)
(* invocations of main, each deciding whether to print the notice, and     *)
(* there notice.calls is the notices printed.                              *)
(*                                                                         *)
(* schema is the schema of the database file: whether schema_migrations    *)
(* exists, its rows, and the tables and indexes; the store is opened on a  *)
(* migrated file.  MigrateSpec is a run of Migrate calls, failing ones     *)
(* included, on a file found in any state.                                 *)
(*                                                                         *)
(* sqlite is the state of the transactions that invocations of peony, each *)
(* a process of its own, have open on the database file: the journal mode  *)
(* (rollback journal or write-ahead log), the number of commits, and for   *)
(* every invocation the position of its transaction and what it has read.  *)
(* ConcurrentSpec runs the transactions of two invocations statement by    *)
(* statement; in the other specifications every call is one step.          *)
(*                                                                         *)
(* procs is, for every invocation of peony, the command it runs and the    *)
(* store call it has reached.  CliSpec runs the commands add, tend, evolve *)
(* and release of two invocations, every store call being one step.        *)
(*                                                                         *)
(* Two columns are history only and are read by no operation: a thought's  *)
(* applied (successful transitions applied to it) and an event's by        *)
(* (the Store method that wrote it); so is schema.applied, the number of   *)
(* Migrate calls that committed the migration.                             *)
(***************************************************************************)
EXTENDS Integers, Sequences, FiniteSets, TLC

VARIABLES db, now, SettleDuration, last, notice, schema, sqlite, procs

vars == <<db, now, SettleDuration, last, notice, schema, sqlite, procs>>

\* ---- bounds ----
MaxThoughts == 2
MaxEvents == 3
MaxTime == 4
MaxAppended == 1
MaxReindexIds == 4
MaxReindexEvents == 2
MaxReindexTime == 5
MaxCount == 7
MaxCalls == 3
MaxVersion == 3
MaxTxTime == 4
MaxCliThoughts == 3
MaxCliTime == 5

\* ---- core.State ----
StateCaptured == "captured"
StateResting == "resting"
StateTended == "tended"
StateEvolved == "evolved"
StateReleased == "released"
StateArchived == "archived"

States == {StateCaptured, StateResting, StateTended, StateEvolved, StateReleased, StateArchived}

TerminalStates == {StateEvolved, StateReleased, StateArchived}

\* ---- inputs ----
Ids == 0 .. MaxThoughts
\* content of a CreateThought call and of an UpdateThoughtContent call
Contents == {<<>>, <<"a">>}
EditedContents == {<<>>, <<" ">>, <<"b">>}
Notes == {{}, {<<" ">>}, {<<"n">>}}
NextStates == States
\* (kind, previousState, nextState) of an AppendEvent call
EventArgs == {<<"", {}, {}>>, <<"captured", {}, {StateCaptured}>>,
              <<"state_change", {StateCaptured}, {StateTended}>>}
\* Contents a create is given and must return unchanged.
RoundTripContents == {<<"a">>, <<" ">>, <<" ", "a", " ">>}

Durations == {0, 2}
Faults == {"none", "thoughts", "events", "commit"}

Counts == 0 .. MaxCount

Limits == 0 .. MaxThoughts

Offsets == -1 .. MaxThoughts

\* ---- helpers ----
RECURSIVE TrimLeft(_)
TrimLeft(s) == IF s # <<>> /\ Head(s) = " " THEN TrimLeft(Tail(s)) ELSE s

RECURSIVE TrimRight(_)
TrimRight(s) ==
    IF s # <<>> /\ s[Len(s)] = " " THEN TrimRight(SubSeq(s, 1, Len(s) - 1)) ELSE s

TrimSpace(s) == TrimRight(TrimLeft(s))

MaxOf(S) == IF S = {} THEN 0 ELSE CHOOSE m \in S : \A x \in S : x <= m

\* The key is the number of rows plus one, whatever keys are in use.
NextRowid_CountPlusOne(rows, seq) == Cardinality(rows) + 1

\* AUTOINCREMENT: the new rowid is one more than the larger of the recorded
\* sequence and the largest rowid in the table.
NextRowid(rows, seq) == MaxOf({seq} \cup {r.id : r \in rows}) + 1

Ok(s) == [ok |-> TRUE, err |-> "", db |-> s]

\* An error return; inside a transaction the deferred tx.Rollback() discards
\* every statement of the call, so the database returned is the one before it.
Fail(s, e) == [ok |-> FALSE, err |-> e, db |-> s]

NoteValue(note) == IF note # {} /\ \A n \in note : TrimSpace(n) # <<>> THEN note ELSE {}

InsertEvent(s, thoughtID, kind, at, previousState, nextState, note, by) ==
    LET id == NextRowid(s.events, s.seq.events)
    IN [s EXCEPT !.events = @ \cup {[id |-> id, thought_id |-> thoughtID, kind |-> kind,
                                     at |-> at, previous_state |-> previousState,
                                     next_state |-> nextState, note |-> note, by |-> by]},
                 !.seq.events = id]

\* The content is not looked at: an empty content is stored.
CreateThought_NoContentCheck(s, content, t, settle, fault) ==
    IF fault = "thoughts" THEN Fail(s, "create thought: insert") @@ [id |-> -1]
    ELSE LET id == NextRowid(s.thoughts, s.seq.thoughts)
             row == [id |-> id, content |-> content, current_state |-> StateCaptured,
                     tend_counter |-> 0, created_at |-> t, updated_at |-> t,
                     last_tended_at |-> {}, eligibility_at |-> t + settle,
                     valence |-> {}, energy |-> {}, applied |-> 0]
         IN Ok([s EXCEPT !.thoughts = @ \cup {row}, !.seq.thoughts = id]) @@ [id |-> id]

\* CreateThought that stores a new thought with tend_counter 1.
CreateThought_CounterOne(s, content, t, settle, fault) ==
    IF content = <<>> THEN Fail(s, "create thought: content is empty") @@ [id |-> -1]
    ELSE IF fault = "thoughts" THEN Fail(s, "create thought: insert") @@ [id |-> -1]
    ELSE LET id == NextRowid(s.thoughts, s.seq.thoughts)
             row == [id |-> id, content |-> content, current_state |-> StateCaptured,
                     tend_counter |-> 1, created_at |-> t, updated_at |-> t,
                     last_tended_at |-> {}, eligibility_at |-> t + settle,
                     valence |-> {}, energy |-> {}, applied |-> 0]
         IN Ok([s EXCEPT !.thoughts = @ \cup {row}, !.seq.thoughts = id]) @@ [id |-> id]

\* ---- the migrator ----

SchemaVersion == 2

Tables == {"thoughts", "events", "app_state"}

Indexes == {"idx_thoughts_state_eligibility", "idx_events_thought_id_at"}

\* The statements of the migration transaction, in the order they are executed.
Statements == <<"thoughts", "events", "app_state", "idx_thoughts_state_eligibility",
                "idx_events_thought_id_at", "record">>

\* The statement at which the database fails the call.
MigrateFaults ==
    {"none", "schema_migrations", "read", "begin", "commit"}
        \cup {Statements[i] : i \in 1 .. Len(Statements)}

\* A database file without any table.
Fresh == [migrations |-> FALSE, versions |-> {}, tables |-> {}, indexes |-> {}, applied |-> 0]

\* The files Migrate may be given: schema_migrations holds any versions, an
\* index exists only on an existing table, and a file recorded at SchemaVersion
\* has the tables and indexes of that version.
Databases ==
    {s \in [migrations : BOOLEAN, versions : SUBSET (1 .. MaxVersion), tables : SUBSET Tables,
            indexes : SUBSET Indexes, applied : {0}] :
        /\ ~s.migrations => s.versions = {}
        /\ "idx_thoughts_state_eligibility" \in s.indexes => "thoughts" \in s.tables
        /\ "idx_events_thought_id_at" \in s.indexes => "events" \in s.tables
        /\ SchemaVersion \in s.versions => s.tables = Tables /\ s.indexes = Indexes}

\* One statement of the transaction: CREATE TABLE IF NOT EXISTS, CREATE INDEX IF
\* NOT EXISTS, or INSERT INTO schema_migrations(version) VALUES (SchemaVersion).
Exec(s, statement) ==
    IF statement \in Tables THEN [s EXCEPT !.tables = @ \cup {statement}]
    ELSE IF statement \in Indexes THEN [s EXCEPT !.indexes = @ \cup {statement}]
    ELSE [s EXCEPT !.versions = @ \cup {SchemaVersion}, !.applied = @ + 1]

\* The statements from the i-th on, executed until the one that fails.
RECURSIVE ExecFrom(_, _, _)
ExecFrom(s, i, fault) ==
    IF i > Len(Statements) THEN Ok(s)
    ELSE IF fault = Statements[i]
         THEN Fail(s, IF fault \in Tables THEN "migrate: create " \o fault \o " table"
                      ELSE IF fault \in Indexes THEN "migrate: create " \o fault
                      ELSE "migrate: record schema version")
    ELSE ExecFrom(Exec(s, Statements[i]), i + 1, fault)

\* The version check is skipped: the migration is applied on every call.
Migrate_NoVersionCheck(s, fault) ==
    IF fault = "schema_migrations" THEN Fail(s, "migrate: create schema_migrations")
    ELSE LET created == [s EXCEPT !.migrations = TRUE]
             current == MaxOf(created.versions)
             executed == ExecFrom(created, 1, fault)
         IN IF fault = "read" THEN Fail(created, "migrate: read current version")
            ELSE IF fault = "begin" THEN Fail(created, "migrate: begin transaction")
            ELSE IF ~executed.ok THEN Fail(created, executed.err)
            ELSE IF fault = "commit" THEN Fail(created, "migrate: commit transaction")
            ELSE Ok(executed.db)

\* The statements are executed outside a transaction: what was executed before
\* the failure stays.
Migrate_NoTransaction(s, fault) ==
    IF fault = "schema_migrations" THEN Fail(s, "migrate: create schema_migrations")
    ELSE LET created == [s EXCEPT !.migrations = TRUE]
             current == MaxOf(created.versions)
             executed == ExecFrom(created, 1, fault)
         IN IF fault = "read" THEN Fail(created, "migrate: read current version")
            ELSE IF current >= SchemaVersion THEN Ok(created)
            ELSE IF fault = "begin" THEN Fail(created, "migrate: begin transaction")
            ELSE IF ~executed.ok THEN Fail(executed.db, executed.err)
            ELSE IF fault = "commit" THEN Fail(executed.db, "migrate: commit transaction")
            ELSE Ok(executed.db)

\* Migrate on the file s: schema_migrations is created outside the transaction
\* and stays when the call fails later; the transaction is rolled back on every
\* error return.
Migrate(s, fault) ==
    IF fault = "schema_migrations" THEN Fail(s, "migrate: create schema_migrations")
    ELSE LET created == [s EXCEPT !.migrations = TRUE]
             current == MaxOf(created.versions)
             executed == ExecFrom(created, 1, fault)
         IN IF fault = "read" THEN Fail(created, "migrate: read current version")
            ELSE IF current >= SchemaVersion THEN Ok(created)
            ELSE IF fault = "begin" THEN Fail(created, "migrate: begin transaction")
            ELSE IF ~executed.ok THEN Fail(created, executed.err)
            ELSE IF fault = "commit" THEN Fail(created, "migrate: commit transaction")
            ELSE Ok(executed.db)

\* ---- timestamps as stored ----
\* A timestamp column holds an instant; the text SQLite stores, compares and
\* returns for it is Format of the instant.  One instant of the clock is 50 ms.
\* Within the minute the models run in, the texts differ from the seconds on:
\* two digits of seconds, the fraction without its trailing zeros (none when
\* it is zero), and Z.
Digit(n) == <<"0", "1", "2", "3", "4", "5", "6", "7", "8", "9">>[n + 1]

\* Parse that reads the seconds and drops the fraction.
Parse_DropsFraction(str) ==
    LET val(c) == CHOOSE n \in 0 .. 9 : Digit(n) = c
    IN ((1000 * val(str[1]) + 100 * val(str[2])) \div 5)

\* time.Time.Format(time.RFC3339Nano)
Format(t) ==
    LET hundredths == 5 * t
        sec == hundredths \div 100
        frac == hundredths % 100
    IN <<Digit(sec \div 10), Digit(sec % 10)>>
       \o (IF frac = 0 THEN <<>>
           ELSE IF frac % 10 = 0 THEN <<".", Digit(frac \div 10)>>
           ELSE <<".", Digit(frac \div 10), Digit(frac % 10)>>)
       \o <<"Z">>

\* time.Parse(time.RFC3339Nano, str)
Parse(str) ==
    LET val(c) == CHOOSE n \in 0 .. 9 : Digit(n) = c
        frac == IF str[3] = "Z" THEN 0
                ELSE IF Len(str) = 5 THEN 10 * val(str[4])
                ELSE 10 * val(str[4]) + val(str[5])
    IN ((1000 * val(str[1]) + 100 * val(str[2]) + frac) \div 5)

\* The byte order of the characters of a timestamp: '.' < '0'..'9' < 'Z'.
Rank(c) == IF c = "." THEN 0 ELSE IF c = "Z" THEN 11 ELSE 1 + (CHOOSE n \in 0 .. 9 : Digit(n) = c)

\* a <= b between two TEXT values (SQLite's BINARY collation).
RECURSIVE TextLeq(_, _)
TextLeq(a, b) ==
    IF a = <<>> THEN TRUE
    ELSE IF b = <<>> THEN FALSE
    ELSE IF Rank(Head(a)) # Rank(Head(b)) THEN Rank(Head(a)) < Rank(Head(b))
    ELSE TextLeq(Tail(a), Tail(b))

\* ---- Store methods ----
CreateThought(s, content, t, settle, fault) ==
    IF content = <<>> THEN Fail(s, "create thought: content is empty") @@ [id |-> -1]
    ELSE IF fault = "thoughts" THEN Fail(s, "create thought: insert") @@ [id |-> -1]
    ELSE LET id == NextRowid(s.thoughts, s.seq.thoughts)
             row == [id |-> id, content |-> content, current_state |-> StateCaptured,
                     tend_counter |-> 0, created_at |-> t, updated_at |-> t,
                     last_tended_at |-> {}, eligibility_at |-> t + settle,
                     valence |-> {}, energy |-> {}, applied |-> 0]
         IN Ok([s EXCEPT !.thoughts = @ \cup {row}, !.seq.thoughts = id]) @@ [id |-> id]

AppendEvent(s, thoughtID, kind, previousState, nextState, note, t, fault) ==
    IF thoughtID <= 0 THEN Fail(s, "append event: invalid thought ID")
    ELSE IF kind = "" THEN Fail(s, "append event: kind is empty")
    ELSE IF fault = "events" THEN Fail(s, "append event: insert")
    ELSE Ok(InsertEvent(s, thoughtID, kind, t, previousState, nextState, note, "AppendEvent"))

\* UPDATE thoughts SET ... WHERE id = ?: every row with that id is rewritten.
UpdateThoughts(s, id, set) ==
    [s EXCEPT !.thoughts = {IF r.id = id THEN set[r] ELSE r : r \in @}]

\* UpdateThoughtContent that leaves updated_at as it was.
UpdateThoughtContent_StaleUpdatedAt(s, id, content, t, fault) ==
    IF id <= 0 THEN Fail(s, "update thought content: invalid thought ID")
    ELSE IF TrimSpace(content) = <<>> THEN Fail(s, "update thought content: content is empty")
    ELSE IF fault = "thoughts" THEN Fail(s, "update thought content: update")
    ELSE IF {r \in s.thoughts : r.id = id} = {}
         THEN Fail(s, "update thought content: no rows updated")
    ELSE LET set == [r \in s.thoughts |-> [r EXCEPT !.content = content]]
         IN Ok(UpdateThoughts(s, id, set))

\* UpdateThoughtContent that also makes the thought eligible from the time of
\* the edit.
UpdateThoughtContent_ResetsEligibility(s, id, content, t, fault) ==
    IF id <= 0 THEN Fail(s, "update thought content: invalid thought ID")
    ELSE IF TrimSpace(content) = <<>> THEN Fail(s, "update thought content: content is empty")
    ELSE IF fault = "thoughts" THEN Fail(s, "update thought content: update")
    ELSE IF {r \in s.thoughts : r.id = id} = {}
         THEN Fail(s, "update thought content: no rows updated")
    ELSE LET set == [r \in s.thoughts |-> [r EXCEPT !.content = content, !.updated_at = t,
                                                     !.eligibility_at = t]]
         IN Ok(UpdateThoughts(s, id, set))

UpdateThoughtContent(s, id, content, t, fault) ==
    IF id <= 0 THEN Fail(s, "update thought content: invalid thought ID")
    ELSE IF TrimSpace(content) = <<>> THEN Fail(s, "update thought content: content is empty")
    ELSE IF fault = "thoughts" THEN Fail(s, "update thought content: update")
    ELSE IF {r \in s.thoughts : r.id = id} = {}
         THEN Fail(s, "update thought content: no rows updated")
    ELSE LET set == [r \in s.thoughts |-> [r EXCEPT !.content = content, !.updated_at = t]]
         IN Ok(UpdateThoughts(s, id, set))

\* MarkThoughtTended without a transaction: a failure after the thought update
\* leaves the update in place.
MarkThoughtTended_NoRollback(s, id, note, t, fault) ==
    IF id <= 0 THEN Fail(s, "mark thought tended: invalid thought ID")
    ELSE IF {r \in s.thoughts : r.id = id} = {} THEN Fail(s, "mark thought tended: not found")
    ELSE LET prev == (CHOOSE r \in s.thoughts : r.id = id).current_state
             next == StateTended
             set == [r \in s.thoughts |-> [r EXCEPT !.current_state = next,
                                 !.tend_counter = @ + 1,
                                 !.last_tended_at = {t},
                                 !.updated_at = t,
                                 !.applied = @ + 1]]
             updated == UpdateThoughts(s, id, set)
             inserted == InsertEvent(updated, id, "state_change", t, {prev}, {next},
                                     NoteValue(note), "MarkThoughtTended")
         IN IF prev \in {StateEvolved, StateReleased, StateArchived}
            THEN Fail(s, "mark thought tended: thought is in terminal state (" \o prev \o ")")
            ELSE IF fault = "thoughts" THEN Fail(s, "mark thought tended: update thoughts")
            ELSE IF fault = "events" THEN Fail(updated, "mark thought tended: insert event")
            ELSE IF fault = "commit" THEN Fail(s, "mark thought tended: commit")
            ELSE Ok(inserted)

\* MarkThoughtTended whose guard forgets the released state.
MarkThoughtTended_ReleasedNotTerminal(s, id, note, t, fault) ==
    IF id <= 0 THEN Fail(s, "mark thought tended: invalid thought ID")
    ELSE IF {r \in s.thoughts : r.id = id} = {} THEN Fail(s, "mark thought tended: not found")
    ELSE LET prev == (CHOOSE r \in s.thoughts : r.id = id).current_state
             next == StateTended
             set == [r \in s.thoughts |-> [r EXCEPT !.current_state = next,
                                 !.tend_counter = @ + 1,
                                 !.last_tended_at = {t},
                                 !.updated_at = t,
                                 !.applied = @ + 1]]
             updated == UpdateThoughts(s, id, set)
             inserted == InsertEvent(updated, id, "state_change", t, {prev}, {next},
                                     NoteValue(note), "MarkThoughtTended")
         IN IF prev \in {StateEvolved, StateArchived}
            THEN Fail(s, "mark thought tended: thought is in terminal state (" \o prev \o ")")
            ELSE IF fault = "thoughts" THEN Fail(s, "mark thought tended: update thoughts")
            ELSE IF fault = "events" THEN Fail(s, "mark thought tended: insert event")
            ELSE IF fault = "commit" THEN Fail(s, "mark thought tended: commit")
            ELSE Ok(inserted)

MarkThoughtTended(s, id, note, t, fault) ==
    IF id <= 0 THEN Fail(s, "mark thought tended: invalid thought ID")
    ELSE IF {r \in s.thoughts : r.id = id} = {} THEN Fail(s, "mark thought tended: not found")
    ELSE LET prev == (CHOOSE r \in s.thoughts : r.id = id).current_state
             next == StateTended
             set == [r \in s.thoughts |-> [r EXCEPT !.current_state = next,
                                 !.tend_counter = @ + 1,
                                 !.last_tended_at = {t},
                                 !.updated_at = t,
                                 !.applied = @ + 1]]
             updated == UpdateThoughts(s, id, set)
             inserted == InsertEvent(updated, id, "state_change", t, {prev}, {next},
                                     NoteValue(note), "MarkThoughtTended")
         IN IF prev \in {StateEvolved, StateReleased, StateArchived}
            THEN Fail(s, "mark thought tended: thought is in terminal state (" \o prev \o ")")
            ELSE IF fault = "thoughts" THEN Fail(s, "mark thought tended: update thoughts")
            ELSE IF fault = "events" THEN Fail(s, "mark thought tended: insert event")
            ELSE IF fault = "commit" THEN Fail(s, "mark thought tended: commit")
            ELSE Ok(inserted)

\* TransitionPostTendResolutionStrict without the check that the thought is tended.
TransitionPostTendResolutionStrict_AnyState(s, id, next, note, t, settle, fault) ==
    IF id <= 0 THEN Fail(s, "post-tend transition: invalid thought ID")
    ELSE IF next \notin {StateResting, StateEvolved, StateReleased, StateArchived}
         THEN Fail(s, "post-tend transition: invalid next state " \o next)
    ELSE IF {r \in s.thoughts : r.id = id} = {} THEN Fail(s, "post-tend transition: not found")
    ELSE LET prev == (CHOOSE r \in s.thoughts : r.id = id).current_state
             rest == [r \in s.thoughts |-> [r EXCEPT !.current_state = next,
                                  !.updated_at = t,
                                  !.eligibility_at = t + settle,
                                  !.applied = @ + 1]]
             other == [r \in s.thoughts |-> [r EXCEPT !.current_state = next,
                                   !.updated_at = t,
                                   !.applied = @ + 1]]
             updated == IF next = StateResting THEN UpdateThoughts(s, id, rest)
                        ELSE UpdateThoughts(s, id, other)
             inserted == InsertEvent(updated, id, "state_change", t, {prev}, {next},
                                     NoteValue(note), "TransitionPostTendResolutionStrict")
         IN IF fault = "thoughts" THEN Fail(s, "post-tend transition: update thoughts")
            ELSE IF fault = "events" THEN Fail(s, "post-tend transition: insert event")
            ELSE IF fault = "commit" THEN Fail(s, "post-tend transition: commit")
            ELSE Ok(inserted)

\* TransitionPostTendResolutionStrict that moves a thought into resting without
\* recomputing eligibility_at.
TransitionPostTendResolutionStrict_RestKeepsEligibility(s, id, next, note, t, settle, fault) ==
    IF id <= 0 THEN Fail(s, "post-tend transition: invalid thought ID")
    ELSE IF next \notin {StateResting, StateEvolved, StateReleased, StateArchived}
         THEN Fail(s, "post-tend transition: invalid next state " \o next)
    ELSE IF {r \in s.thoughts : r.id = id} = {} THEN Fail(s, "post-tend transition: not found")
    ELSE LET prev == (CHOOSE r \in s.thoughts : r.id = id).current_state
             other == [r \in s.thoughts |-> [r EXCEPT !.current_state = next,
                                   !.updated_at = t,
                                   !.applied = @ + 1]]
             updated == UpdateThoughts(s, id, other)
             inserted == InsertEvent(updated, id, "state_change", t, {prev}, {next},
                                     NoteValue(note), "TransitionPostTendResolutionStrict")
         IN IF prev # StateTended
            THEN Fail(s, "post-tend transition: thought is not in tended state (currently "
                         \o prev \o ")")
            ELSE IF fault = "thoughts" THEN Fail(s, "post-tend transition: update thoughts")
            ELSE IF fault = "events" THEN Fail(s, "post-tend transition: insert event")
            ELSE IF fault = "commit" THEN Fail(s, "post-tend transition: commit")
            ELSE Ok(inserted)

TransitionPostTendResolutionStrict(s, id, next, note, t, settle, fault) ==
    IF id <= 0 THEN Fail(s, "post-tend transition: invalid thought ID")
    ELSE IF next \notin {StateResting, StateEvolved, StateReleased, StateArchived}
         THEN Fail(s, "post-tend transition: invalid next state " \o next)
    ELSE IF {r \in s.thoughts : r.id = id} = {} THEN Fail(s, "post-tend transition: not found")
    ELSE LET prev == (CHOOSE r \in s.thoughts : r.id = id).current_state
             rest == [r \in s.thoughts |-> [r EXCEPT !.current_state = next,
                                  !.updated_at = t,
                                  !.eligibility_at = t + settle,
                                  !.applied = @ + 1]]
             other == [r \in s.thoughts |-> [r EXCEPT !.current_state = next,
                                   !.updated_at = t,
                                   !.applied = @ + 1]]
             updated == IF next = StateResting THEN UpdateThoughts(s, id, rest)
                        ELSE UpdateThoughts(s, id, other)
             inserted == InsertEvent(updated, id, "state_change", t, {prev}, {next},
                                     NoteValue(note), "TransitionPostTendResolutionStrict")
         IN IF prev # StateTended
            THEN Fail(s, "post-tend transition: thought is not in tended state (currently "
                         \o prev \o ")")
            ELSE IF fault = "thoughts" THEN Fail(s, "post-tend transition: update thoughts")
            ELSE IF fault = "events" THEN Fail(s, "post-tend transition: insert event")
            ELSE IF fault = "commit" THEN Fail(s, "post-tend transition: commit")
            ELSE Ok(inserted)

\* The thought is evolved and its updated_at is left as it was.
ToEvolve_KeepsUpdatedAt(s, id, t, fault) ==
    IF id <= 0 THEN Fail(s, "to evolve: invalid thought ID")
    ELSE IF {r \in s.thoughts : r.id = id} = {} THEN Fail(s, "to evolve: not found")
    ELSE LET prev == (CHOOSE r \in s.thoughts : r.id = id).current_state
             state == StateEvolved
             set == [r \in s.thoughts |-> [r EXCEPT !.current_state = state, !.applied = @ + 1]]
             updated == UpdateThoughts(s, id, set)
             inserted == InsertEvent(updated, id, "state_change", t, {prev}, {state}, {},
                                     "ToEvolve")
         IN IF prev = StateEvolved
            THEN Fail(s, "to evolve: thought is in terminal state (" \o prev \o ")")
            ELSE IF fault = "thoughts" THEN Fail(s, "to evolve: update thoughts")
            ELSE IF fault = "events" THEN Fail(s, "to evolve: insert event")
            ELSE IF fault = "commit" THEN Fail(s, "to evolve: commit")
            ELSE Ok(inserted)

\* ToEvolve that commits the thought update without inserting the event.
ToEvolve_NoEvent(s, id, t, fault) ==
    IF id <= 0 THEN Fail(s, "to evolve: invalid thought ID")
    ELSE IF {r \in s.thoughts : r.id = id} = {} THEN Fail(s, "to evolve: not found")
    ELSE LET prev == (CHOOSE r \in s.thoughts : r.id = id).current_state
             state == StateEvolved
             set == [r \in s.thoughts |-> [r EXCEPT !.current_state = state, !.updated_at = t, !.applied = @ + 1]]
             updated == UpdateThoughts(s, id, set)
         IN IF prev = StateEvolved
            THEN Fail(s, "to evolve: thought is in terminal state (" \o prev \o ")")
            ELSE IF fault = "thoughts" THEN Fail(s, "to evolve: update thoughts")
            ELSE IF fault = "events" THEN Fail(s, "to evolve: insert event")
            ELSE IF fault = "commit" THEN Fail(s, "to evolve: commit")
            ELSE Ok(updated)

\* ToEvolve that takes only a tended thought.
ToEvolve_OnlyFromTended(s, id, t, fault) ==
    IF id <= 0 THEN Fail(s, "to evolve: invalid thought ID")
    ELSE IF {r \in s.thoughts : r.id = id} = {} THEN Fail(s, "to evolve: not found")
    ELSE LET prev == (CHOOSE r \in s.thoughts : r.id = id).current_state
             state == StateEvolved
             set == [r \in s.thoughts |-> [r EXCEPT !.current_state = state, !.updated_at = t, !.applied = @ + 1]]
             updated == UpdateThoughts(s, id, set)
             inserted == InsertEvent(updated, id, "state_change", t, {prev}, {state}, {},
                                     "ToEvolve")
         IN IF prev # StateTended
            THEN Fail(s, "to evolve: thought is in terminal state (" \o prev \o ")")
            ELSE IF fault = "thoughts" THEN Fail(s, "to evolve: update thoughts")
            ELSE IF fault = "events" THEN Fail(s, "to evolve: insert event")
            ELSE IF fault = "commit" THEN Fail(s, "to evolve: commit")
            ELSE Ok(inserted)

ToEvolve(s, id, t, fault) ==
    IF id <= 0 THEN Fail(s, "to evolve: invalid thought ID")
    ELSE IF {r \in s.thoughts : r.id = id} = {} THEN Fail(s, "to evolve: not found")
    ELSE LET prev == (CHOOSE r \in s.thoughts : r.id = id).current_state
             state == StateEvolved
             set == [r \in s.thoughts |-> [r EXCEPT !.current_state = state, !.updated_at = t, !.applied = @ + 1]]
             updated == UpdateThoughts(s, id, set)
             inserted == InsertEvent(updated, id, "state_change", t, {prev}, {state}, {},
                                     "ToEvolve")
         IN IF prev = StateEvolved
            THEN Fail(s, "to evolve: thought is in terminal state (" \o prev \o ")")
            ELSE IF fault = "thoughts" THEN Fail(s, "to evolve: update thoughts")
            ELSE IF fault = "events" THEN Fail(s, "to evolve: insert event")
            ELSE IF fault = "commit" THEN Fail(s, "to evolve: commit")
            ELSE Ok(inserted)

\* The not-found return leaves the events of the missing thought deleted.
ReleaseThought_NotFoundKeepsDelete(s, id, fault) ==
    IF id <= 0 THEN Fail(s, "release thought: invalid thought ID")
    ELSE LET noEvents == [s EXCEPT !.events = {e \in @ : e.thought_id # id}]
             deleted == [noEvents EXCEPT !.thoughts = {r \in @ : r.id # id}]
         IN IF fault = "events" THEN Fail(s, "release thought: delete events")
            ELSE IF fault = "thoughts" THEN Fail(s, "release thought: delete thought")
            ELSE IF deleted.thoughts = noEvents.thoughts
                 THEN Fail(noEvents, "release thought: not found")
            ELSE IF fault = "commit" THEN Fail(s, "release thought: commit")
            ELSE Ok(deleted)

ReleaseThought(s, id, fault) ==
    IF id <= 0 THEN Fail(s, "release thought: invalid thought ID")
    ELSE LET noEvents == [s EXCEPT !.events = {e \in @ : e.thought_id # id}]
             deleted == [noEvents EXCEPT !.thoughts = {r \in @ : r.id # id}]
         IN IF fault = "events" THEN Fail(s, "release thought: delete events")
            ELSE IF fault = "thoughts" THEN Fail(s, "release thought: delete thought")
            ELSE IF deleted.thoughts = noEvents.thoughts
                 THEN Fail(s, "release thought: not found")
            ELSE IF fault = "commit" THEN Fail(s, "release thought: commit")
            ELSE Ok(deleted)

\* The ids in descending order.
RECURSIVE SortedIds_Descending(_)
SortedIds_Descending(S) ==
    IF S = {} THEN <<>>
    ELSE LET m == CHOOSE x \in S : \A y \in S : x >= y
         IN <<m>> \o SortedIds_Descending(S \ {m})

\* SELECT id FROM thoughts ORDER BY id ASC
RECURSIVE SortedIds(_)
SortedIds(S) ==
    IF S = {} THEN <<>>
    ELSE LET m == CHOOSE x \in S : \A y \in S : x <= y
         IN <<m>> \o SortedIds(S \ {m})

\* for _, m := range maps: UPDATE thoughts SET id = -newID WHERE id = oldID
RECURSIVE TmpThoughts(_, _, _)
TmpThoughts(rows, maps, i) ==
    IF i > Len(maps) THEN rows
    ELSE TmpThoughts({IF r.id = maps[i] THEN [r EXCEPT !.id = -i] ELSE r : r \in rows},
                     maps, i + 1)

\* The event rows are rewritten whole: a moved event gets the zero timestamp.
RECURSIVE TmpEvents_ResetsAt(_, _, _)
TmpEvents_ResetsAt(rows, maps, i) ==
    IF i > Len(maps) THEN rows
    ELSE TmpEvents_ResetsAt({IF e.thought_id = maps[i]
                             THEN [e EXCEPT !.thought_id = -i, !.at = 0] ELSE e
                             : e \in rows},
                            maps, i + 1)

\* for _, m := range maps: UPDATE events SET thought_id = -newID WHERE thought_id = oldID
RECURSIVE TmpEvents(_, _, _)
TmpEvents(rows, maps, i) ==
    IF i > Len(maps) THEN rows
    ELSE TmpEvents({IF e.thought_id = maps[i] THEN [e EXCEPT !.thought_id = -i] ELSE e
                    : e \in rows},
                   maps, i + 1)

\* PRAGMA foreign_key_check: the events whose thought_id is the id of no thought.
ForeignKeyCheck(s) == {e \in s.events : \A r \in s.thoughts : r.id # e.thought_id}

\* The tables are rebuilt from the stored thoughts: an event whose thought_id is
\* the id of no thought is not carried over.
ReindexThoughtIDs_DropsOrphanEvents(s, fault) ==
    LET maps == SortedIds({r.id : r \in s.thoughts})
        tmpT == TmpThoughts(s.thoughts, maps, 1)
        tmpE == TmpEvents(s.events \ ForeignKeyCheck(s), maps, 1)
        finalT == {IF r.id < 0 THEN [r EXCEPT !.id = -r.id] ELSE r : r \in tmpT}
        finalE == {IF e.thought_id < 0 THEN [e EXCEPT !.thought_id = -e.thought_id] ELSE e
                   : e \in tmpE}
        done == [thoughts |-> finalT, events |-> finalE,
                 seq |-> [s.seq EXCEPT !.thoughts = MaxOf({r.id : r \in finalT})]]
    IN IF Len(maps) = 0
       THEN IF fault = "commit" THEN Fail(s, "reindex thought ids: commit") ELSE Ok(s)
       ELSE IF fault = "thoughts" THEN Fail(s, "reindex thought ids: tmp update thoughts")
       ELSE IF fault = "events" THEN Fail(s, "reindex thought ids: tmp update events")
       ELSE IF fault = "commit" THEN Fail(s, "reindex thought ids: commit")
       ELSE Ok(done)

ReindexThoughtIDs(s, fault) ==
    LET maps == SortedIds({r.id : r \in s.thoughts})
        tmpT == TmpThoughts(s.thoughts, maps, 1)
        tmpE == TmpEvents(s.events, maps, 1)
        finalT == {IF r.id < 0 THEN [r EXCEPT !.id = -r.id] ELSE r : r \in tmpT}
        finalE == {IF e.thought_id < 0 THEN [e EXCEPT !.thought_id = -e.thought_id] ELSE e
                   : e \in tmpE}
        done == [thoughts |-> finalT, events |-> finalE,
                 seq |-> [s.seq EXCEPT !.thoughts = MaxOf({r.id : r \in finalT})]]
    IN IF Len(maps) = 0
       THEN IF fault = "commit" THEN Fail(s, "reindex thought ids: commit") ELSE Ok(s)
       ELSE IF fault = "thoughts" THEN Fail(s, "reindex thought ids: tmp update thoughts")
       ELSE IF fault = "events" THEN Fail(s, "reindex thought ids: tmp update events")
       ELSE IF ForeignKeyCheck(done) # {}
            THEN Fail(s, "reindex thought ids: foreign_key_check failed")
       ELSE IF fault = "commit" THEN Fail(s, "reindex thought ids: commit")
       ELSE Ok(done)

\* ReindexThoughtIDs of the store that rebuilds the tables (part_001): the rows
\* are copied into thoughts_new and events_new through thought_id_map, events
\* by a JOIN on their thought_id, and the new tables take the place of the old
\* ones together with their AUTOINCREMENT counters.
ReindexThoughtIDsBySwap(s, fault) ==
    LET maps == SortedIds({r.id : r \in s.thoughts})
        new_id(old) == CHOOSE i \in 1 .. Len(maps) : maps[i] = old
        thoughts_new == {[r EXCEPT !.id = new_id(r.id)] : r \in s.thoughts}
        events_new == {[e EXCEPT !.thought_id = new_id(e.thought_id)]
                       : e \in s.events \ ForeignKeyCheck(s)}
        done == [thoughts |-> thoughts_new, events |-> events_new,
                 seq |-> [thoughts |-> MaxOf({r.id : r \in thoughts_new}),
                          events |-> MaxOf({e.id : e \in events_new})]]
    IN IF fault = "thoughts" THEN Fail(s, "reindex thought ids: copy thoughts")
       ELSE IF fault = "events" THEN Fail(s, "reindex thought ids: copy events")
       ELSE IF fault = "commit" THEN Fail(s, "reindex thought ids: commit")
       ELSE Ok(done)

\* fmt.Fprintf(file, "%d\n", n): the decimal digits of n >= 0 and a newline.
RECURSIVE Decimal(_)
Decimal(n) == IF n < 10 THEN <<Digit(n)>> ELSE Decimal(n \div 10) \o <<Digit(n % 10)>>

FormatCount(n) == Decimal(n) \o <<"\n">>

IsDigit(c) == \E d \in 0 .. 9 : Digit(d) = c

\* The value of the leading digits of text, read after acc.
RECURSIVE ScanDigits(_, _)
ScanDigits(text, acc) ==
    IF text = <<>> \/ ~IsDigit(Head(text)) THEN acc
    ELSE ScanDigits(Tail(text), 10 * acc + (CHOOSE d \in 0 .. 9 : Digit(d) = Head(text)))

\* fmt.Fscan(file, &prev): an error unless the text starts with a digit.
ScanCount(text) ==
    IF text = <<>> \/ ~IsDigit(Head(text)) THEN [ok |-> FALSE, prev |-> 0]
    ELSE [ok |-> TRUE, prev |-> ScanDigits(text, 0)]

\* A changed count is reported and the file keeps the former count.
DidCountTendChange_NoOverwrite(file, n, fault) ==
    LET created == IF fault = "create" THEN file ELSE {FormatCount(n)}
    IN IF file = {} THEN [changed |-> TRUE, file |-> created]
       ELSE LET scanned == ScanCount(CHOOSE text \in file : TRUE)
            IN IF ~scanned.ok THEN [changed |-> TRUE, file |-> created]
               ELSE IF scanned.prev = n THEN [changed |-> FALSE, file |-> file]
               ELSE [changed |-> TRUE, file |-> file]

\* An unchanged count is reported as such and the file is removed.
DidCountTendChange_ForgetsOnSame(file, n, fault) ==
    LET created == IF fault = "create" THEN file ELSE {FormatCount(n)}
    IN IF file = {} THEN [changed |-> TRUE, file |-> created]
       ELSE LET scanned == ScanCount(CHOOSE text \in file : TRUE)
            IN IF ~scanned.ok THEN [changed |-> TRUE, file |-> created]
               ELSE IF scanned.prev = n THEN [changed |-> FALSE, file |-> {}]
               ELSE [changed |-> TRUE, file |-> created]

\* DidCountTendChange on the file as it is found: what it returns and the file
\* it leaves; fault "create" is os.Create failing.
DidCountTendChange(file, n, fault) ==
    LET created == IF fault = "create" THEN file ELSE {FormatCount(n)}
    IN IF file = {} THEN [changed |-> TRUE, file |-> created]
       ELSE LET scanned == ScanCount(CHOOSE text \in file : TRUE)
            IN IF ~scanned.ok THEN [changed |-> TRUE, file |-> created]
               ELSE IF scanned.prev = n THEN [changed |-> FALSE, file |-> file]
               ELSE [changed |-> TRUE, file |-> created]

\* ---- Store queries ----
\* row.Scan and the parsing of the stored timestamps into a core.Thought.
ScanThought(r) ==
    [id |-> r.id, content |-> r.content, current_state |-> r.current_state,
     tend_counter |-> r.tend_counter,
     created_at |-> Parse(Format(r.created_at)),
     updated_at |-> Parse(Format(r.updated_at)),
     last_tended_at |-> {Parse(Format(t)) : t \in r.last_tended_at},
     eligibility_at |-> Parse(Format(r.eligibility_at)),
     valence |-> r.valence, energy |-> r.energy]

\* ORDER BY at ASC, id ASC over the stored text of at.
EventBefore(e, f) ==
    IF e.at # f.at THEN TextLeq(Format(e.at), Format(f.at)) ELSE e.id <= f.id

RECURSIVE OrderedEvents(_)
OrderedEvents(E) ==
    IF E = {} THEN <<>>
    ELSE LET e == CHOOSE x \in E : \A y \in E : EventBefore(x, y)
         IN <<[id |-> e.id, thought_id |-> e.thought_id, kind |-> e.kind,
               at |-> Parse(Format(e.at)), previous_state |-> e.previous_state,
               next_state |-> e.next_state, note |-> e.note]>>
            \o OrderedEvents(E \ {e})

\* The result of a query: thought is the core.Thought returned, if any.
Found(r, events) == [ok |-> TRUE, err |-> "", thought |-> {ScanThought(r)}, events |-> events]

NotFound(e) == [ok |-> FALSE, err |-> e, thought |-> {}, events |-> <<>>]

GetThought(s, id) ==
    IF id <= 0 THEN NotFound("get thought: invalid thought ID")
    ELSE IF {r \in s.thoughts : r.id = id} = {} THEN NotFound("get thought: not found")
    ELSE Found(CHOOSE r \in s.thoughts : r.id = id,
               OrderedEvents({e \in s.events : e.thought_id = id}))

\* WHERE current_state IN (captured, resting) AND eligibility_at <= ? with the
\* text of the time t of the query.
TendReady(s, t) ==
    {r \in s.thoughts : /\ r.current_state \in {StateCaptured, StateResting}
                        /\ TextLeq(Format(r.eligibility_at), Format(t))}

GetTendThought(s, id, t) ==
    IF id <= 0 THEN NotFound("get thought: invalid thought ID")
    ELSE IF {r \in TendReady(s, t) : r.id = id} = {} THEN NotFound("get thought: not found")
    ELSE Found(CHOOSE r \in TendReady(s, t) : r.id = id,
               OrderedEvents({e \in s.events : e.thought_id = id}))

CountTendReady(s, t) == Cardinality(TendReady(s, t))

\* ORDER BY eligibility_at ASC, id ASC over the stored text of eligibility_at.
ThoughtBefore(a, b) ==
    IF a.eligibility_at # b.eligibility_at
    THEN TextLeq(Format(a.eligibility_at), Format(b.eligibility_at))
    ELSE a.id <= b.id

RECURSIVE OrderedThoughts(_)
OrderedThoughts(T) ==
    IF T = {} THEN <<>>
    ELSE LET a == CHOOSE x \in T : \A y \in T : ThoughtBefore(x, y)
         IN <<ScanThought(a)>> \o OrderedThoughts(T \ {a})

\* LIMIT limit OFFSET offset
Page(rows, limit, offset) ==
    SubSeq(rows, offset + 1, IF offset + limit < Len(rows) THEN offset + limit ELSE Len(rows))

ListTendThoughtsByPagination(s, limit, offset, t) ==
    IF limit <= 0
    THEN [ok |-> FALSE, err |-> "list tend thoughts: limit must be > 0", thoughts |-> <<>>]
    ELSE IF offset < 0
    THEN [ok |-> FALSE, err |-> "list tend thoughts: offset must be >= 0", thoughts |-> <<>>]
    ELSE [ok |-> TRUE, err |-> "", thoughts |-> Page(OrderedThoughts(TendReady(s, t)), limit, offset)]

\* ORDER BY updated_at ASC, id ASC over the stored text of updated_at.
UpdatedBefore(a, b) ==
    IF a.updated_at # b.updated_at
    THEN TextLeq(Format(a.updated_at), Format(b.updated_at))
    ELSE a.id <= b.id

\* The columns id, content, current_state, tend_counter, updated_at of a row.
ScanListed(r) ==
    [id |-> r.id, content |-> r.content, current_state |-> r.current_state,
     tend_counter |-> r.tend_counter, updated_at |-> Parse(Format(r.updated_at))]

RECURSIVE OrderedByUpdated(_)
OrderedByUpdated(T) ==
    IF T = {} THEN <<>>
    ELSE LET a == CHOOSE x \in T : \A y \in T : UpdatedBefore(x, y)
         IN <<ScanListed(a)>> \o OrderedByUpdated(T \ {a})

\* The listing leaves out every thought in a terminal state.
ListThoughtsByPagination_HidesTerminal(s, limit, offset) ==
    IF limit <= 0
    THEN [ok |-> FALSE, err |-> "list thoughts: limit must be > 0", thoughts |-> <<>>]
    ELSE IF offset < 0
    THEN [ok |-> FALSE, err |-> "list thoughts: offset must be >= 0", thoughts |-> <<>>]
    ELSE [ok |-> TRUE, err |-> "",
          thoughts |-> Page(OrderedByUpdated({r \in s.thoughts :
                                                 r.current_state \notin TerminalStates}),
                            limit, offset)]

\* WHERE current_state != 'archived' ORDER BY updated_at ASC, id ASC LIMIT ? OFFSET ?
ListThoughtsByPagination(s, limit, offset) ==
    IF limit <= 0
    THEN [ok |-> FALSE, err |-> "list thoughts: limit must be > 0", thoughts |-> <<>>]
    ELSE IF offset < 0
    THEN [ok |-> FALSE, err |-> "list thoughts: offset must be >= 0", thoughts |-> <<>>]
    ELSE [ok |-> TRUE, err |-> "",
          thoughts |-> Page(OrderedByUpdated({r \in s.thoughts :
                                                 r.current_state # StateArchived}),
                            limit, offset)]

RECURSIVE OrderedById(_)
OrderedById(T) ==
    IF T = {} THEN <<>>
    ELSE LET a == CHOOSE x \in T : \A y \in T : x.id <= y.id
         IN <<ScanThought(a)>> \o OrderedById(T \ {a})

\* WHERE current_state IN (?) ORDER BY id ASC LIMIT ? OFFSET ?
FilterViewByPagination(s, limit, offset, filter) ==
    IF limit <= 0
    THEN [ok |-> FALSE, err |-> "list view thoughts: limit must be > 0", thoughts |-> <<>>]
    ELSE IF offset < 0
    THEN [ok |-> FALSE, err |-> "list view thoughts: offset must be >= 0", thoughts |-> <<>>]
    ELSE [ok |-> TRUE, err |-> "",
          thoughts |-> Page(OrderedById({r \in s.thoughts : r.current_state = filter}),
                            limit, offset)]

\* ---- commands ----

\* The release command marks the thought released and keeps it stored.
cmdRelease_MarksReleased(s, id, yes) ==
    IF id <= 0 THEN [code |-> 2, db |-> s]
    ELSE IF ~yes THEN [code |-> 0, db |-> s]
    ELSE IF ~\E r \in s.thoughts : r.id = id THEN [code |-> 1, db |-> s]
    ELSE [code |-> 0,
          db |-> [s EXCEPT !.thoughts = {IF r.id = id
                                         THEN [r EXCEPT !.current_state = StateReleased]
                                         ELSE r : r \in @}]]

\* peony release <id>, yes being the answer to the confirmation prompt: the
\* exit code and the database the command leaves.
cmdRelease(s, id, yes) ==
    IF id <= 0 THEN [code |-> 2, db |-> s]
    ELSE IF ~yes THEN [code |-> 0, db |-> s]
    ELSE LET released == ReleaseThought(s, id, "none")
             reindexed == ReindexThoughtIDs(released.db, "none")
         IN IF ~released.ok THEN [code |-> 1, db |-> released.db]
            ELSE IF ~reindexed.ok THEN [code |-> 1, db |-> reindexed.db]
            ELSE [code |-> 0, db |-> reindexed.db]

\* The first argument of peony: every name main dispatches on, one it does
\* not know, and "" for no argument at all.
Commands == {"", "help", "h", "version", "-v", "add", "a", "view", "v", "tend", "t",
             "release", "r", "evolve", "e", "configure", "config", "c", "unknown"}

\* The command main runs for the argument cmd.
CommandOf(cmd) ==
    IF cmd \in {"", "help", "h"} THEN "help"
    ELSE IF cmd \in {"version", "-v"} THEN "version"
    ELSE IF cmd \in {"add", "a"} THEN "add"
    ELSE IF cmd \in {"view", "v"} THEN "view"
    ELSE IF cmd \in {"tend", "t"} THEN "tend"
    ELSE IF cmd \in {"release", "r"} THEN "release"
    ELSE IF cmd \in {"evolve", "e"} THEN "evolve"
    ELSE IF cmd \in {"configure", "config", "c"} THEN "configure"
    ELSE "unknown"

shouldPrintNotice(cmd) ==
    /\ cmd # "add" /\ cmd # "a" /\ cmd # "tend" /\ cmd # "t"
    /\ cmd # "help" /\ cmd # "h" /\ cmd # "version" /\ cmd # "-v"

\* The notice is printed for every count, zero included.
PrintNotice_AlsoForZero(file, cmd, n) ==
    IF cmd = "" THEN [changed |-> FALSE, file |-> file]
    ELSE IF shouldPrintNotice(cmd) THEN DidCountTendChange(file, n, "none")
    ELSE [changed |-> FALSE, file |-> file]

\* What main does about the tend notice before it runs its command, n being
\* the result of CountTendReady: changed is whether it prints the notice.
PrintNotice(file, cmd, n) ==
    IF cmd = "" THEN [changed |-> FALSE, file |-> file]
    ELSE IF shouldPrintNotice(cmd) /\ n > 0 THEN DidCountTendChange(file, n, "none")
    ELSE [changed |-> FALSE, file |-> file]

\* ---- transactions ----

Invocations == {1, 2}

Journals == {"delete", "wal"}

\* An invocation of peony that is not running; code is the exit code of the
\* command it ran last.  While a command cmd runs, id is its argument or the
\* id it was given, created the created_at of the thought it created or was
\* shown, and before that thought's current_state when the command started.
Exited == [cmd |-> "", pc |-> "exit", id |-> 0, created |-> 0, before |-> "", code |-> 0]

\* No transaction open; err is the error the invocation's last call returned.
NoTx == [pc |-> "none", op |-> "", id |-> 0, next |-> "", prev |-> "", t |-> 0, seen |-> 0,
         err |-> ""]

NoTransactions(journal) ==
    [journal |-> journal, commits |-> 0, marked |-> 0, tx |-> [p \in Invocations |-> NoTx]]

\* The check of the current_state a transaction has read: the error returned,
\* or "" when the call goes on.
TxCheck(op, prev) ==
    IF op = "MarkThoughtTended"
    THEN IF prev \in {StateEvolved, StateReleased, StateArchived}
         THEN "mark thought tended: thought is in terminal state (" \o prev \o ")" ELSE ""
    ELSE IF op = "TransitionPostTendResolutionStrict"
    THEN IF prev # StateTended
         THEN "post-tend transition: thought is not in tended state (currently " \o prev \o ")"
         ELSE ""
    ELSE IF prev = StateEvolved
         THEN "to evolve: thought is in terminal state (" \o prev \o ")" ELSE ""

\* The UPDATE thoughts and INSERT INTO events of the transaction x, executed on
\* the database s with the previous state x has read.
TxWrite(s, x, settle) ==
    LET next == IF x.op = "MarkThoughtTended" THEN StateTended
                ELSE IF x.op = "ToEvolve" THEN StateEvolved ELSE x.next
        set == [r \in s.thoughts |->
                   IF x.op = "MarkThoughtTended"
                   THEN [r EXCEPT !.current_state = next, !.tend_counter = @ + 1,
                                  !.last_tended_at = {x.t}, !.updated_at = x.t,
                                  !.applied = @ + 1]
                   ELSE IF x.op = "TransitionPostTendResolutionStrict" /\ next = StateResting
                   THEN [r EXCEPT !.current_state = next, !.updated_at = x.t,
                                  !.eligibility_at = x.t + settle, !.applied = @ + 1]
                   ELSE [r EXCEPT !.current_state = next, !.updated_at = x.t,
                                  !.applied = @ + 1]]
    IN InsertEvent(UpdateThoughts(s, x.id, set), x.id, "state_change", x.t, {x.prev}, {next},
                   {}, x.op)

\* The call of x as one step on the database s.
Atomic(s, x, settle) ==
    IF x.op = "MarkThoughtTended" THEN MarkThoughtTended(s, x.id, {}, x.t, "none")
    ELSE IF x.op = "TransitionPostTendResolutionStrict"
    THEN TransitionPostTendResolutionStrict(s, x.id, x.next, {}, x.t, settle, "none")
    ELSE ToEvolve(s, x.id, x.t, "none")

\* Every write is let through.
CanWrite_NoLock(q, p) == TRUE

\* SQLite lets the transaction of p execute its first write: no other
\* transaction holds the write lock, and under the write-ahead log nothing has
\* been committed since p's first read (its snapshot is the latest).
CanWrite(q, p) ==
    /\ \A o \in Invocations \ {p} : q.tx[o].pc # "written"
    /\ q.journal = "wal" => q.tx[p].seen = q.commits

\* SQLite lets the transaction of p commit: under the rollback journal no other
\* transaction holds a read lock.
CanCommit(q, p) ==
    q.journal = "delete" => \A o \in Invocations \ {p} : q.tx[o].pc \notin {"read", "written"}

\* ---- state ----
\* No call is in progress: the previous result has been handed to the caller.
Idle == [op |-> "", id |-> 0, arg |-> <<>>]

\* The call op(id, arg) has succeeded and its result is with the caller.
Called(op, id, arg) == [op |-> op, id |-> id, arg |-> arg]

Init ==
    /\ db = [thoughts |-> {}, events |-> {}, seq |-> [thoughts |-> 0, events |-> 0]]
    /\ now = 0
    /\ SettleDuration \in Durations
    /\ last = Idle
    /\ notice = [file |-> {}, calls |-> <<>>]
    /\ schema = Migrate(Fresh, "none").db
    /\ sqlite = NoTransactions("delete")
    /\ procs = [p \in Invocations |-> Exited]

Tick ==
    /\ last = Idle
    /\ UNCHANGED <<notice, schema, sqlite, procs>>
    /\ now < MaxTime
    /\ now' = now + 1
    /\ UNCHANGED <<db, SettleDuration, last>>

CallCreateThought ==
    /\ last = Idle
    /\ UNCHANGED <<notice, schema, sqlite, procs>>
    /\ now < MaxTime
    /\ \E content \in Contents :
        LET r == CreateThought(db, content, now, SettleDuration, "none")
        IN /\ r.ok
           /\ r.id <= MaxThoughts
           /\ db' = r.db
           /\ last' = Called("CreateThought", r.id, content)
           /\ now' = now + 1
           /\ UNCHANGED SettleDuration

CallAppendEvent ==
    /\ last = Idle
    /\ UNCHANGED <<notice, schema, sqlite, procs>>
    /\ now < MaxTime
    /\ db.seq.events < MaxEvents
    /\ Cardinality({e \in db.events : e.by = "AppendEvent"}) < MaxAppended
    /\ \E id \in Ids, a \in EventArgs :
        LET r == AppendEvent(db, id, a[1], a[2], a[3], {}, now, "none")
        IN /\ r.ok
           /\ db' = r.db
           /\ last' = Called("AppendEvent", id, <<a[1]>>)
           /\ now' = now + 1
           /\ UNCHANGED SettleDuration

CallUpdateThoughtContent ==
    /\ last = Idle
    /\ UNCHANGED <<notice, schema, sqlite, procs>>
    /\ now < MaxTime
    /\ \E id \in Ids, content \in EditedContents :
        LET r == UpdateThoughtContent(db, id, content, now, "none")
        IN /\ r.ok
           /\ db' = r.db
           /\ last' = Called("UpdateThoughtContent", id, content)
           /\ now' = now + 1
           /\ UNCHANGED SettleDuration

CallMarkThoughtTended ==
    /\ last = Idle
    /\ UNCHANGED <<notice, schema, sqlite, procs>>
    /\ now < MaxTime
    /\ db.seq.events < MaxEvents
    /\ \E id \in Ids, note \in Notes :
        LET r == MarkThoughtTended(db, id, note, now, "none")
        IN /\ r.ok
           /\ db' = r.db
           /\ last' = Called("MarkThoughtTended", id, <<>>)
           /\ now' = now + 1
           /\ UNCHANGED SettleDuration

CallTransitionPostTendResolutionStrict ==
    /\ last = Idle
    /\ UNCHANGED <<notice, schema, sqlite, procs>>
    /\ now < MaxTime
    /\ db.seq.events < MaxEvents
    /\ \E id \in Ids, next \in NextStates, note \in Notes :
        LET r == TransitionPostTendResolutionStrict(db, id, next, note, now, SettleDuration,
                                                    "none")
        IN /\ r.ok
           /\ db' = r.db
           /\ last' = Called("TransitionPostTendResolutionStrict", id, <<next>>)
           /\ now' = now + 1
           /\ UNCHANGED SettleDuration

CallToEvolve ==
    /\ last = Idle
    /\ UNCHANGED <<notice, schema, sqlite, procs>>
    /\ now < MaxTime
    /\ db.seq.events < MaxEvents
    /\ \E id \in Ids :
        LET r == ToEvolve(db, id, now, "none")
        IN /\ r.ok
           /\ db' = r.db
           /\ last' = Called("ToEvolve", id, <<>>)
           /\ now' = now + 1
           /\ UNCHANGED SettleDuration

CallReleaseThought ==
    /\ last = Idle
    /\ UNCHANGED <<notice, schema, sqlite, procs>>
    /\ \E id \in Ids :
        LET r == ReleaseThought(db, id, "none")
        IN /\ r.ok
           /\ db' = r.db
           /\ last' = Called("ReleaseThought", id, <<>>)
           /\ UNCHANGED <<now, SettleDuration>>

CallReindexThoughtIDs ==
    /\ last = Idle
    /\ UNCHANGED <<notice, schema, sqlite, procs>>
    /\ LET r == ReindexThoughtIDs(db, "none")
       IN /\ r.ok
          /\ db' = r.db
          /\ last' = Called("ReindexThoughtIDs", 0, SortedIds({t.id : t \in db.thoughts}))
          /\ UNCHANGED <<now, SettleDuration>>

\* The caller takes the result of the call.
Return ==
    /\ last # Idle
    /\ last' = Idle
    /\ UNCHANGED <<db, now, SettleDuration, notice, schema, sqlite, procs>>

Next ==
    \/ Return
    \/ Tick
    \/ CallCreateThought
    \/ CallAppendEvent
    \/ CallUpdateThoughtContent
    \/ CallMarkThoughtTended
    \/ CallTransitionPostTendResolutionStrict
    \/ CallToEvolve
    \/ CallReleaseThought
    \/ CallReindexThoughtIDs

Spec == Init /\ [][Next]_vars

\* ---- a maintenance session ----
\* Creates, appended events, deletes and reindexes over more thoughts than
\* Spec holds and without the transitions, which ReindexThoughtIDs does not
\* read.
ReindexCreateThought ==
    /\ last = Idle
    /\ UNCHANGED <<notice, schema, sqlite, procs>>
    /\ now < MaxReindexTime
    /\ \E content \in Contents :
        LET r == CreateThought(db, content, now, SettleDuration, "none")
        IN /\ r.ok
           /\ r.id <= MaxReindexIds
           /\ db' = r.db
           /\ last' = Called("CreateThought", r.id, content)
           /\ now' = now + 1
           /\ UNCHANGED SettleDuration

ReindexAppendEvent ==
    /\ last = Idle
    /\ UNCHANGED <<notice, schema, sqlite, procs>>
    /\ now < MaxReindexTime
    /\ db.seq.events < MaxReindexEvents
    /\ \E id \in 1 .. MaxReindexIds :
        LET r == AppendEvent(db, id, "captured", {}, {StateCaptured}, {}, now, "none")
        IN /\ r.ok
           /\ db' = r.db
           /\ last' = Called("AppendEvent", id, <<"captured">>)
           /\ now' = now + 1
           /\ UNCHANGED SettleDuration

ReindexReleaseThought ==
    /\ last = Idle
    /\ UNCHANGED <<notice, schema, sqlite, procs>>
    /\ \E id \in 1 .. MaxReindexIds :
        LET r == ReleaseThought(db, id, "none")
        IN /\ r.ok
           /\ db' = r.db
           /\ last' = Called("ReleaseThought", id, <<>>)
           /\ UNCHANGED <<now, SettleDuration>>

ReindexNext ==
    \/ Return
    \/ ReindexCreateThought
    \/ ReindexAppendEvent
    \/ ReindexReleaseThought
    \/ CallReindexThoughtIDs

ReindexSpec == Init /\ [][ReindexNext]_vars

\* ---- the tend notice ----

CallDidCountTendChange ==
    /\ last = Idle
    /\ Len(notice.calls) < MaxCalls
    /\ \E n \in Counts :
        LET r == DidCountTendChange(notice.file, n, "none")
        IN /\ notice' = [file |-> r.file,
                         calls |-> Append(notice.calls, [n |-> n, changed |-> r.changed])]
           /\ last' = Called("DidCountTendChange", 0, <<n>>)
    /\ UNCHANGED <<db, now, SettleDuration, schema, sqlite, procs>>

NoticeNext ==
    \/ Return
    \/ CallDidCountTendChange

NoticeSpec == Init /\ [][NoticeNext]_vars

\* An invocation of peony cmd that finds n thoughts ready for tending;
\* notice.calls is here the notices printed so far.
MainPrintNotice ==
    /\ last = Idle
    /\ Len(notice.calls) < MaxCalls
    /\ \E cmd \in Commands, n \in 0 .. MaxThoughts :
        LET r == PrintNotice(notice.file, cmd, n)
        IN /\ notice' = [file |-> r.file,
                         calls |-> IF r.changed
                                   THEN Append(notice.calls, [n |-> n, changed |-> TRUE])
                                   ELSE notice.calls]
           /\ last' = Called("main", n, <<cmd>>)
    /\ UNCHANGED <<db, now, SettleDuration, schema, sqlite, procs>>

MainNext ==
    \/ Return
    \/ MainPrintNotice

MainSpec == Init /\ [][MainNext]_vars

\* ---- migrations ----

MigrateInit ==
    /\ db = [thoughts |-> {}, events |-> {}, seq |-> [thoughts |-> 0, events |-> 0]]
    /\ now = 0
    /\ SettleDuration \in Durations
    /\ last = Idle
    /\ notice = [file |-> {}, calls |-> <<>>]
    /\ schema \in Databases
    /\ sqlite = NoTransactions("delete")
    /\ procs = [p \in Invocations |-> Exited]

\* A call of Migrate, failing or not: last.id is the version the call read
\* and last.arg the error it returned ("" for nil).
CallMigrate ==
    /\ last = Idle
    /\ \E fault \in MigrateFaults :
        LET r == Migrate(schema, fault)
        IN /\ schema' = r.db
           /\ last' = Called("Migrate", MaxOf(schema.versions), <<r.err>>)
    /\ UNCHANGED <<db, now, SettleDuration, notice, sqlite, procs>>

MigrateNext ==
    \/ Return
    \/ CallMigrate

MigrateSpec == MigrateInit /\ [][MigrateNext]_vars

\* ---- two invocations ----

\* One thought has been added; no invocation is running.
ConcurrentInit ==
    /\ SettleDuration \in Durations
    /\ db = CreateThought([thoughts |-> {}, events |-> {}, seq |-> [thoughts |-> 0, events |-> 0]],
                          <<"a">>, 0, SettleDuration, "none").db
    /\ now = 1
    /\ last = Idle
    /\ notice = [file |-> {}, calls |-> <<>>]
    /\ schema = Migrate(Fresh, "none").db
    /\ sqlite \in {NoTransactions(journal) : journal \in Journals}
    /\ procs = [p \in Invocations |-> Exited]

\* The call returns the error err; the deferred Rollback ends the transaction.
Rollback(p, err) == sqlite' = [sqlite EXCEPT !.tx[p] = [NoTx EXCEPT !.err = err]]

\* s.db.Begin() of a mark-tended, resolve or evolve-direct call on thought 1.
TxBegin(p) ==
    /\ sqlite.tx[p].pc = "none"
    /\ now < MaxTxTime
    /\ \E op \in {"MarkThoughtTended", "TransitionPostTendResolutionStrict", "ToEvolve"} :
        \E next \in IF op = "TransitionPostTendResolutionStrict"
                    THEN {StateResting, StateEvolved, StateReleased, StateArchived}
                    ELSE {""} :
            sqlite' = [sqlite EXCEPT !.tx[p] = [NoTx EXCEPT !.pc = "begun", !.op = op,
                                                            !.id = 1, !.next = next]]
    /\ UNCHANGED <<db, now, SettleDuration, last, notice, schema, procs>>

\* SELECT current_state FROM thoughts WHERE id = ?, the check of the state read,
\* and time.Now().
TxRead(p) ==
    LET x == sqlite.tx[p]
        prev == (CHOOSE r \in db.thoughts : r.id = x.id).current_state
    IN /\ x.pc = "begun"
       /\ IF TxCheck(x.op, prev) # ""
          THEN Rollback(p, TxCheck(x.op, prev)) /\ UNCHANGED now
          ELSE /\ sqlite' = [sqlite EXCEPT !.tx[p] = [x EXCEPT !.pc = "read", !.prev = prev,
                                                               !.t = now,
                                                               !.seen = sqlite.commits]]
               /\ now' = now + 1
       /\ UNCHANGED <<db, SettleDuration, last, notice, schema, procs>>

\* UPDATE thoughts and INSERT INTO events: executed in the transaction when
\* SQLite grants the write lock, an error (database is locked) otherwise.
TxUpdate(p) ==
    LET x == sqlite.tx[p]
    IN /\ x.pc = "read"
       /\ IF CanWrite(sqlite, p)
          THEN sqlite' = [sqlite EXCEPT !.tx[p].pc = "written"]
          ELSE Rollback(p, "update thoughts: database is locked")
       /\ UNCHANGED <<db, now, SettleDuration, last, notice, schema, procs>>

\* tx.Commit(): the writes of the transaction reach the database file, or the
\* commit fails (database is locked) and they are rolled back.
TxCommit(p) ==
    LET x == sqlite.tx[p]
    IN /\ x.pc = "written"
       /\ IF CanCommit(sqlite, p)
          THEN /\ db' = TxWrite(db, x, SettleDuration)
               /\ sqlite' = [sqlite EXCEPT !.tx[p] = NoTx,
                                           !.commits = @ + 1,
                                           !.marked = IF x.op = "MarkThoughtTended"
                                                      THEN @ + 1 ELSE @]
          ELSE Rollback(p, "commit: database is locked") /\ UNCHANGED db
       /\ UNCHANGED <<now, SettleDuration, last, notice, schema, procs>>

ConcurrentNext ==
    \E p \in Invocations :
        \/ TxBegin(p)
        \/ TxRead(p)
        \/ TxUpdate(p)
        \/ TxCommit(p)

ConcurrentSpec == ConcurrentInit /\ [][ConcurrentNext]_vars

\* ---- the commands of two invocations ----
\* The invocation p runs cmd and has reached pc.
Running(p, cmd, pc) == procs[p].cmd = cmd /\ procs[p].pc = pc

\* The command of p returns code to main, which exits with it.
Exit(p, code) == procs' = [procs EXCEPT ![p] = [Exited EXCEPT !.code = code]]

\* p goes on to the store call pc of its command.
Goto(p, pc) == procs' = [procs EXCEPT ![p].pc = pc]

\* peony add: the first store call, CreateThought.
AddCreateThought(p) ==
    /\ procs[p].pc = "exit"
    /\ now < MaxCliTime
    /\ db.seq.thoughts < MaxCliThoughts
    /\ LET r == CreateThought(db, <<"a">>, now, SettleDuration, "none")
       IN /\ r.ok
          /\ db' = r.db
          /\ procs' = [procs EXCEPT ![p] = [cmd |-> "add", pc |-> "created", id |-> r.id,
                                            created |-> now, before |-> "", code |-> 0]]
    /\ now' = now + 1
    /\ UNCHANGED <<SettleDuration, last, notice, schema, sqlite>>

\* peony add: the second store call, AppendEvent of the captured event.
AddAppendEvent(p) ==
    /\ Running(p, "add", "created")
    /\ LET r == AppendEvent(db, procs[p].id, "captured", {}, {StateCaptured}, {}, now, "none")
       IN /\ db' = r.db
          /\ Exit(p, IF r.ok THEN 0 ELSE 1)
    /\ now' = now + 1
    /\ UNCHANGED <<SettleDuration, last, notice, schema, sqlite>>

\* peony tend <id>: GetTendThought; the command goes on with the thought found.
TendGetTendThought(p) ==
    /\ procs[p].pc = "exit"
    /\ now < MaxCliTime
    /\ \E id \in 1 .. MaxCliThoughts :
        LET r == GetTendThought(db, id, now)
            thought == CHOOSE x \in r.thought : TRUE
        IN /\ r.ok
           /\ procs' = [procs EXCEPT ![p] = [cmd |-> "tend", pc |-> "got", id |-> thought.id,
                                             created |-> thought.created_at,
                                             before |-> thought.current_state, code |-> 0]]
    /\ now' = now + 1
    /\ UNCHANGED <<db, SettleDuration, last, notice, schema, sqlite>>

\* peony tend: the user is not satisfied with the edit, and nothing is saved.
TendNotSatisfied(p) ==
    /\ Running(p, "tend", "got")
    /\ Exit(p, 0)
    /\ UNCHANGED <<db, now, SettleDuration, last, notice, schema, sqlite>>

\* peony tend: UpdateThoughtContent with the edited content; mark is the
\* user's answer to "mark as tended".
TendUpdateThoughtContent(p) ==
    /\ Running(p, "tend", "got")
    /\ \E mark \in BOOLEAN :
        LET r == UpdateThoughtContent(db, procs[p].id, <<"b">>, now, "none")
        IN /\ db' = r.db
           /\ IF ~r.ok THEN Exit(p, 1)
              ELSE IF ~mark THEN Exit(p, 0)
              ELSE Goto(p, "saved")
    /\ now' = now + 1
    /\ UNCHANGED <<SettleDuration, last, notice, schema, sqlite>>

\* peony tend: MarkThoughtTended.
TendMarkThoughtTended(p) ==
    /\ Running(p, "tend", "saved")
    /\ LET r == MarkThoughtTended(db, procs[p].id, {}, now, "none")
       IN /\ db' = r.db
          /\ IF r.ok THEN Goto(p, "marked") ELSE Exit(p, 1)
    /\ now' = now + 1
    /\ UNCHANGED <<SettleDuration, last, notice, schema, sqlite>>

\* peony tend: promptChoice fails to read the user's choice.
TendPromptChoiceFails(p) ==
    /\ Running(p, "tend", "marked")
    /\ Exit(p, 1)
    /\ UNCHANGED <<db, now, SettleDuration, last, notice, schema, sqlite>>

\* peony tend: TransitionPostTendResolutionStrict to the state the user chose.
TendTransition(p) ==
    /\ Running(p, "tend", "marked")
    /\ \E next \in {StateResting, StateEvolved, StateReleased, StateArchived} :
        LET r == TransitionPostTendResolutionStrict(db, procs[p].id, next, {}, now,
                                                    SettleDuration, "none")
        IN /\ db' = r.db
           /\ Exit(p, IF r.ok THEN 0 ELSE 1)
    /\ now' = now + 1
    /\ UNCHANGED <<SettleDuration, last, notice, schema, sqlite>>

\* peony evolve <id>: ToEvolve, its only store call that writes.
EvolveToEvolve(p) ==
    /\ procs[p].pc = "exit"
    /\ now < MaxCliTime
    /\ \E id \in 1 .. MaxCliThoughts :
        LET r == ToEvolve(db, id, now, "none")
        IN /\ r.ok
           /\ db' = r.db
           /\ Exit(p, 0)
    /\ now' = now + 1
    /\ UNCHANGED <<SettleDuration, last, notice, schema, sqlite>>

\* peony release <id>: the first store call, ReleaseThought.
ReleaseReleaseThought(p) ==
    /\ procs[p].pc = "exit"
    /\ \E id \in 1 .. MaxCliThoughts :
        LET r == ReleaseThought(db, id, "none")
        IN /\ r.ok
           /\ db' = r.db
           /\ procs' = [procs EXCEPT ![p] = [cmd |-> "release", pc |-> "released", id |-> id,
                                             created |-> 0, before |-> "", code |-> 0]]
    /\ UNCHANGED <<now, SettleDuration, last, notice, schema, sqlite>>

\* peony release: the second store call, ReindexThoughtIDs.
ReleaseReindexThoughtIDs(p) ==
    /\ Running(p, "release", "released")
    /\ LET r == ReindexThoughtIDs(db, "none")
       IN /\ db' = r.db
          /\ Exit(p, IF r.ok THEN 0 ELSE 1)
    /\ UNCHANGED <<now, SettleDuration, last, notice, schema, sqlite>>

CliNext ==
    \E p \in Invocations :
        \/ AddCreateThought(p)
        \/ AddAppendEvent(p)
        \/ TendGetTendThought(p)
        \/ TendNotSatisfied(p)
        \/ TendUpdateThoughtContent(p)
        \/ TendMarkThoughtTended(p)
        \/ TendPromptChoiceFails(p)
        \/ TendTransition(p)
        \/ EvolveToEvolve(p)
        \/ ReleaseReleaseThought(p)
        \/ ReleaseReindexThoughtIDs(p)

CliSpec == Init /\ [][CliNext]_vars

\* ---- properties ----
Has(s, id) == \E r \in s.thoughts : r.id = id

Thought(s, id) == CHOOSE r \in s.thoughts : r.id = id

EventsOf(s, id) == {e \in s.events : e.thought_id = id}

Transitions == {"MarkThoughtTended", "TransitionPostTendResolutionStrict", "ToEvolve"}

\* This step is a successful call of op.
Calls(op) == last = Idle /\ last' # Idle /\ last'.op = op

\* The result r of a call made in this state: if it is an error, the database
\* it leaves is the database of this state.
RolledBack(r) == ~r.ok => r.db = db

TypeOK ==
    /\ now \in 0 .. MaxTime
    /\ SettleDuration \in Durations
    /\ \A r \in db.thoughts : r.current_state \in States /\ r.id \in 1 .. MaxThoughts
    /\ \A e \in db.events : e.id \in 1 .. MaxEvents

\* C1: every successful mark-tended, resolve or evolve-direct call changes the
\* thought's current_state and appends exactly one event, of kind state_change,
\* for that thought, with previous_state the state before the call and
\* next_state the new current_state, and removes or adds no other event.
C1_TransitionChangesStateAndAppendsOneEvent ==
    [][\A op \in Transitions :
        Calls(op) =>
            LET id == last'.id
                new == db'.events \ db.events
            IN /\ Has(db, id) /\ Has(db', id)
               /\ Thought(db', id).current_state # Thought(db, id).current_state
               /\ db.events \subseteq db'.events
               /\ Cardinality(new) = 1
               /\ \A e \in new :
                    /\ e.kind = "state_change"
                    /\ e.thought_id = id
                    /\ e.previous_state = {Thought(db, id).current_state}
                    /\ e.next_state = {Thought(db', id).current_state}]_vars

\* C2: whenever a call can be made, a mark-tended, resolve, evolve-direct,
\* delete or reindex call that fails (guard rejected, thought update, event
\* insert or commit failed) leaves the thoughts, every thought field, the
\* events and the id generators exactly as they were before the call.
C2_FailedCallRollsBack ==
    last = Idle =>
        \A fault \in Faults :
            /\ RolledBack(ReindexThoughtIDs(db, fault))
            /\ \A id \in Ids :
                /\ RolledBack(MarkThoughtTended(db, id, {}, now, fault))
                /\ \A next \in NextStates :
                    RolledBack(TransitionPostTendResolutionStrict(db, id, next, {}, now,
                                                                  SettleDuration, fault))
                /\ RolledBack(ToEvolve(db, id, now, fault))
                /\ RolledBack(ReleaseThought(db, id, fault))

\* A thought has been marked tended, and a resolve call on it now fails at the
\* commit and a second mark-tended at the event insert, after its thought update.
C2_Witness ==
    /\ last.op = "MarkThoughtTended"
    /\ Has(db, last.id)
    /\ Thought(db, last.id).tend_counter = 1
    /\ TransitionPostTendResolutionStrict(db, last.id, StateEvolved, {}, now,
                                          SettleDuration, "commit").err
         = "post-tend transition: commit"
    /\ MarkThoughtTended(db, last.id, {}, now, "events").err
         = "mark thought tended: insert event"

\* C3: mark-tended on a captured or resting thought whose eligibility_at is
\* later than now fails and leaves the database unchanged: no step is a
\* successful mark-tended call on such a thought.
C3_MarkTendedRequiresEligibility ==
    [][~(/\ Calls("MarkThoughtTended")
         /\ Has(db, last'.id)
         /\ Thought(db, last'.id).current_state \in {StateCaptured, StateResting}
         /\ Thought(db, last'.id).eligibility_at > now)]_vars

\* C4: mark-tended succeeds only on a thought that is captured or resting; on a
\* thought that is already tended it is rejected and tend_counter stays.
C4_MarkTendedOnlyFromCapturedOrResting ==
    [][Calls("MarkThoughtTended")
       => Thought(db, last'.id).current_state \in {StateCaptured, StateResting}]_vars

\* C5: once a thought is evolved, released or archived, no mark-tended,
\* resolve, evolve-direct, update-content or append-event call changes its
\* current_state.
C5_TerminalStatesAbsorbing ==
    [][\A op \in Transitions \cup {"UpdateThoughtContent", "AppendEvent"} :
        Calls(op) =>
            \A r \in db.thoughts :
                r.current_state \in TerminalStates =>
                    /\ Has(db', r.id)
                    /\ Thought(db', r.id).current_state = r.current_state]_vars

\* C6: mark-tended on a thought that is evolved, released or archived fails
\* with an error that names that state and leaves the thought row and the
\* events unchanged, whatever the note.
C6_MarkTendedRejectsTerminal ==
    \A r \in db.thoughts :
        r.current_state \in TerminalStates =>
            \A note \in Notes :
                LET m == MarkThoughtTended(db, r.id, note, now, "none")
                IN /\ ~m.ok
                   /\ m.err = "mark thought tended: thought is in terminal state ("
                              \o r.current_state \o ")"
                   /\ m.db = db

\* A resolve call has released a thought, and mark-tended on it is rejected.
C6_Witness ==
    /\ last.op = "TransitionPostTendResolutionStrict"
    /\ last.arg = <<StateReleased>>
    /\ Thought(db, last.id).current_state = StateReleased
    /\ MarkThoughtTended(db, last.id, {}, now, "none").err
         = "mark thought tended: thought is in terminal state (released)"

\* C7: resolve succeeds only on a thought that is tended and with a next state
\* among resting, evolved, released, archived, which becomes the current
\* state; every other resolve call fails and leaves the database unchanged.
C7_ResolveOnlyFromTended ==
    last = Idle =>
        \A id \in Ids, next \in NextStates, note \in Notes :
            LET m == TransitionPostTendResolutionStrict(db, id, next, note, now,
                                                        SettleDuration, "none")
            IN IF m.ok
               THEN /\ Has(db, id)
                    /\ Thought(db, id).current_state = StateTended
                    /\ next \in {StateResting, StateEvolved, StateReleased, StateArchived}
                    /\ Thought(m.db, id).current_state = next
               ELSE m.db = db

\* A resolve call has moved a tended thought to resting, and a resolve call on
\* another thought, which is captured, is rejected.
C7_Witness ==
    /\ last.op = "TransitionPostTendResolutionStrict"
    /\ Thought(db, last.id).current_state = StateResting
    /\ \E r \in db.thoughts :
        /\ r.current_state = StateCaptured
        /\ TransitionPostTendResolutionStrict(db, r.id, StateResting, {}, now,
                                              SettleDuration, "none").err
             = "post-tend transition: thought is not in tended state (currently captured)"

\* C8: in no committed state is a thought stored without any event.
C8_NoThoughtWithoutEvent ==
    \A r \in db.thoughts : EventsOf(db, r.id) # {}

\* C9: a successful update-content replaces the content, refreshes updated_at
\* and appends exactly one event for that thought.
C9_UpdateContentAppendsOneEvent ==
    [][Calls("UpdateThoughtContent") =>
        /\ Thought(db', last'.id).content = last'.arg
        /\ Thought(db', last'.id).updated_at = now
        /\ Cardinality(EventsOf(db', last'.id) \ EventsOf(db, last'.id)) = 1]_vars

\* C9 as amended: a successful update-content replaces the content by the one
\* given, sets updated_at to the time of the call, changes no other field and
\* no other thought, and appends no event.
C9_UpdateContentWritesNoEvent ==
    [][Calls("UpdateThoughtContent") =>
        /\ Has(db, last'.id)
        /\ db'.thoughts = (db.thoughts \ {Thought(db, last'.id)}) \cup
                            {[Thought(db, last'.id) EXCEPT !.content = last'.arg,
                                                           !.updated_at = now]}
        /\ db'.events = db.events
        /\ db'.seq = db.seq]_vars

\* An update-content call has replaced the content of a thought that has an
\* event, later than the thought was created.
C9_Witness ==
    /\ last.op = "UpdateThoughtContent"
    /\ Thought(db, last.id).content = <<"b">>
    /\ Thought(db, last.id).updated_at > Thought(db, last.id).created_at
    /\ EventsOf(db, last.id) # {}

\* C10: for every stored thought, the number of its events of kind
\* state_change equals the number of successful mark-tended, resolve and
\* evolve-direct calls applied to it.
C10_StateChangeEventsEqualTransitions ==
    \A r \in db.thoughts :
        Cardinality({e \in EventsOf(db, r.id) : e.kind = "state_change"}) = r.applied

\* C10 as amended: for every stored thought, the number of its events of kind
\* state_change that append-event did not write equals the number of
\* successful mark-tended, resolve and evolve-direct calls applied to it.
C10_TransitionEventsEqualTransitions ==
    \A r \in db.thoughts :
        Cardinality({e \in EventsOf(db, r.id) :
                        e.kind = "state_change" /\ e.by # "AppendEvent"}) = r.applied

\* A reindex has moved thought 2, which had a transition applied, to id 1
\* after thought 1 was deleted.
C10_Witness ==
    /\ last.op = "ReindexThoughtIDs"
    /\ last.arg = <<2>>
    /\ Has(db, 1)
    /\ Thought(db, 1).applied >= 1

\* The id that the thought with id after this step had before it: a reindex
\* gives the k-th old id the id k, every other step keeps the ids.
PriorId(id) ==
    IF Calls("ReindexThoughtIDs") /\ id \in 1 .. Len(last'.arg) THEN last'.arg[id] ELSE id

\* C11: tend_counter is 0 on the thought a create stores, one more than before
\* on the thought a successful mark-tended is applied to, and as before on
\* every other thought over every step (resolve, evolve-direct, update-content,
\* append-event, delete, reindex), so it never decreases.
C11_TendCounterOnlyByMarkTended ==
    [][\A r \in db'.thoughts :
        IF Calls("CreateThought") /\ r.id = last'.id
        THEN r.tend_counter = 0
        ELSE /\ Has(db, PriorId(r.id))
             /\ r.tend_counter = Thought(db, PriorId(r.id)).tend_counter
                    + (IF Calls("MarkThoughtTended") /\ r.id = last'.id THEN 1 ELSE 0)]_vars

\* A thought has been marked tended a second time.
C11_Witness ==
    /\ last.op = "MarkThoughtTended"
    /\ Thought(db, last.id).tend_counter = 2

\* C12: a successful resolve into resting is applied to a tended thought, makes
\* it resting with eligibility_at the time of the call plus SettleDuration and
\* leaves tend_counter and last_tended_at as they were; when the mark-tended
\* before it was the thought's first transition, the thought ends with
\* tend_counter 1 and last_tended_at set.
C12_ResolveRestingRecomputesEligibility ==
    [][(Calls("TransitionPostTendResolutionStrict") /\ last'.arg = <<StateResting>>) =>
        /\ Has(db, last'.id) /\ Has(db', last'.id)
        /\ LET old == Thought(db, last'.id)
               new == Thought(db', last'.id)
           IN /\ old.current_state = StateTended
              /\ new.current_state = StateResting
              /\ new.eligibility_at = now + SettleDuration
              /\ new.tend_counter = old.tend_counter
              /\ new.last_tended_at = old.last_tended_at
              /\ old.applied = 1 => (new.tend_counter = 1 /\ new.last_tended_at # {})]_vars

\* The scenario: with SettleDuration 0 a thought was created, marked tended and
\* resolved into resting one instant ago.
C12_Witness ==
    /\ SettleDuration = 0
    /\ last.op = "TransitionPostTendResolutionStrict"
    /\ last.arg = <<StateResting>>
    /\ LET r == Thought(db, last.id)
       IN /\ r.current_state = StateResting
          /\ r.applied = 2
          /\ r.tend_counter = 1
          /\ r.last_tended_at # {}
          /\ r.eligibility_at + 1 = now

\* C13: over every step, a thought's eligibility_at is as before unless the
\* step is the create that stores the thought or a resolve of it into resting:
\* mark-tended, resolve into evolved, released or archived, evolve-direct,
\* update-content, append-event, delete and reindex leave it unchanged.
C13_EligibilityWrittenOnlyByCreateAndRest ==
    [][\A r \in db'.thoughts :
        \/ Calls("CreateThought") /\ r.id = last'.id
        \/ /\ Calls("TransitionPostTendResolutionStrict")
           /\ last'.arg = <<StateResting>>
           /\ r.id = last'.id
        \/ /\ Has(db, PriorId(r.id))
           /\ r.eligibility_at = Thought(db, PriorId(r.id)).eligibility_at]_vars

\* A thought that is not yet eligible has been evolved directly, later than it
\* was created, and its eligibility_at is still the one its create computed.
C13_Witness ==
    /\ last.op = "ToEvolve"
    /\ SettleDuration = 2
    /\ LET r == Thought(db, last.id)
       IN /\ r.updated_at > r.created_at
          /\ r.eligibility_at = r.created_at + 2
          /\ r.eligibility_at >= now

\* C14: whenever a call can be made, a create with a non-empty content
\* succeeds, and a get of the id it returns yields a thought that is captured,
\* has that content, tend_counter 0, no last_tended_at, created_at equal to
\* updated_at and to the time of the create, and eligibility_at equal to
\* created_at plus SettleDuration.
C14_CreateGetRoundTrip ==
    last = Idle =>
        \A content \in RoundTripContents :
            LET c == CreateThought(db, content, now, SettleDuration, "none")
                g == GetThought(c.db, c.id)
            IN /\ c.ok
               /\ g.ok
               /\ Cardinality(g.thought) = 1
               /\ \A t \in g.thought :
                    /\ t.id = c.id
                    /\ t.current_state = StateCaptured
                    /\ t.content = content
                    /\ t.tend_counter = 0
                    /\ t.last_tended_at = {}
                    /\ t.created_at = now
                    /\ t.created_at = t.updated_at
                    /\ t.eligibility_at = t.created_at + SettleDuration

\* A second thought has just been created with SettleDuration 2, and a get of
\* its id returns it with its content and an eligibility_at two instants after
\* its created_at.
C14_Witness ==
    /\ last.op = "CreateThought"
    /\ last.id = 2
    /\ SettleDuration = 2
    /\ LET g == GetThought(db, last.id)
       IN /\ g.ok
          /\ \A t \in g.thought :
                /\ t.content = last.arg
                /\ t.created_at >= 1
                /\ t.eligibility_at = t.created_at + 2

\* C15: whenever a call can be made, evolve-direct on a captured, resting or
\* tended thought succeeds, whatever its tend_counter and eligibility_at, makes
\* it evolved and leaves its content, tend_counter, last_tended_at and
\* eligibility_at and every other thought as they were; on an evolved thought
\* it fails and leaves the database unchanged.
C15_EvolveDirectFromNonTerminal ==
    last = Idle =>
        \A r \in db.thoughts :
            LET e == ToEvolve(db, r.id, now, "none")
            IN /\ r.current_state \in {StateCaptured, StateResting, StateTended} =>
                    /\ e.ok
                    /\ Has(e.db, r.id)
                    /\ Thought(e.db, r.id).current_state = StateEvolved
                    /\ Thought(e.db, r.id).content = r.content
                    /\ Thought(e.db, r.id).tend_counter = r.tend_counter
                    /\ Thought(e.db, r.id).last_tended_at = r.last_tended_at
                    /\ Thought(e.db, r.id).eligibility_at = r.eligibility_at
                    /\ e.db.thoughts \ {Thought(e.db, r.id)} = db.thoughts \ {r}
               /\ r.current_state = StateEvolved => (~e.ok /\ e.db = db)

\* A thought that was never tended and was not yet eligible has been evolved
\* directly, and a second evolve-direct on it is rejected.
C15_Witness ==
    /\ last.op = "ToEvolve"
    /\ LET r == Thought(db, last.id)
       IN /\ r.current_state = StateEvolved
          /\ r.tend_counter = 0
          /\ r.last_tended_at = {}
          /\ r.applied = 1
          /\ r.eligibility_at > r.updated_at
    /\ ToEvolve(db, last.id, now, "none").err
         = "to evolve: thought is in terminal state (evolved)"

\* A thought is tend-eligible at the time t: it is captured or resting and its
\* eligibility_at is not later than t.
TendEligible(r, t) ==
    r.current_state \in {StateCaptured, StateResting} /\ r.eligibility_at <= t

\* C16: in every state get-if-tend-eligible returns a thought iff it is
\* tend-eligible now, count-tend-eligible is the number of the tend-eligible
\* thoughts and list-tend-eligible lists exactly them.
C16_TendEligibleIffStateAndTime ==
    LET eligible == {r \in db.thoughts : TendEligible(r, now)}
        listed == ListTendThoughtsByPagination(db, Cardinality(db.thoughts) + 1, 0, now).thoughts
    IN /\ \A r \in db.thoughts : GetTendThought(db, r.id, now).ok <=> r \in eligible
       /\ CountTendReady(db, now) = Cardinality(eligible)
       /\ {listed[i].id : i \in 1 .. Len(listed)} = {r.id : r \in eligible}

\* C17: a successful reindex of N thoughts leaves the same thoughts with the
\* ids 1..N, the thought with the k-th smallest old id under the id k, and
\* every other column as it was.
C17_ReindexDenseOrderPreserving ==
    [][Calls("ReindexThoughtIDs") =>
        LET rank(r) == Cardinality({x \in db.thoughts : x.id <= r.id})
        IN /\ db'.thoughts = {[r EXCEPT !.id = rank(r)] : r \in db.thoughts}
           /\ {r.id : r \in db'.thoughts} = 1 .. Cardinality(db.thoughts)]_vars

\* The example: of the thoughts 1, 2, 3, 4 the third was deleted, and a reindex
\* has left the ids 1, 2, 3 with the old 4 as 3.
C17_Witness ==
    /\ last.op = "ReindexThoughtIDs"
    /\ last.arg = <<1, 2, 4>>
    /\ {r.id : r \in db.thoughts} = {1, 2, 3}

\* C18: over a successful reindex every event is kept, and the events that
\* reference a thought's new id are exactly those that referenced its old id.
C18_ReindexKeepsEventOwners ==
    [][Calls("ReindexThoughtIDs") =>
        /\ {e.id : e \in db'.events} = {e.id : e \in db.events}
        /\ \A r \in db'.thoughts :
            {e.id : e \in EventsOf(db', r.id)} = {e.id : e \in EventsOf(db, PriorId(r.id))}]_vars

\* C19: whenever a call can be made and some event references a thought id
\* that does not exist, reindex fails with the integrity error and leaves the
\* database unchanged.
C19_ReindexAbortsOnOrphanEvent ==
    (last = Idle /\ ForeignKeyCheck(db) # {}) =>
        LET r == ReindexThoughtIDs(db, "none")
        IN /\ ~r.ok
           /\ r.err = "reindex thought ids: foreign_key_check failed"
           /\ r.db = db

\* C20: right after a successful reindex that leaves N thoughts, a create
\* returns the id N + 1.
C20_ReindexResetsIdGenerator ==
    last.op = "ReindexThoughtIDs" =>
        \A content \in RoundTripContents :
            CreateThought(db, content, now, SettleDuration, "none").id
                = Cardinality(db.thoughts) + 1

C22_IdsPositiveUniqueStable ==
    /\ [](\A r, q \in db.thoughts : r.id > 0 /\ (r.id = q.id => r = q))
    /\ [][~Calls("ReindexThoughtIDs") =>
            \A r \in db.thoughts : \A q \in db'.thoughts :
                r.created_at = q.created_at => r.id = q.id]_vars

\* Thought 1 has been deleted while thought 2 is stored, and no reindex has run.
C22_Witness ==
    /\ last.op = "ReleaseThought"
    /\ last.id = 1
    /\ {r.id : r \in db.thoughts} = {2}

\* C23: a successful delete of id removes the thought id and exactly the events
\* whose thought_id is id, and leaves every other row as it was; whenever a
\* call can be made, a delete of a positive id that is not stored returns
\* not-found and leaves the database, the events carrying that id included,
\* unchanged.
C23_DeleteCascadesOrNotFound ==
    /\ [][Calls("ReleaseThought") =>
            LET id == last'.id
            IN /\ Has(db, id)
               /\ db'.thoughts = {r \in db.thoughts : r.id # id}
               /\ db'.events = db.events \ EventsOf(db, id)]_vars
    /\ [](last = Idle =>
            \A id \in 1 .. MaxThoughts + 1 :
                ~Has(db, id) =>
                    LET r == ReleaseThought(db, id, "none")
                    IN ~r.ok /\ r.err = "release thought: not found" /\ r.db = db)

\* Thought 1 has been deleted with its event, and thought 2 is stored with its
\* own event.
C23_Witness ==
    /\ last.op = "ReleaseThought"
    /\ last.id = 1
    /\ Has(db, 2)
    /\ EventsOf(db, 2) # {}
    /\ EventsOf(db, 1) = {}
    /\ Cardinality(db.events) < db.seq.events

\* C24: a successful resolve to released keeps the thought stored, in the state
\* released, with every event it had and the new one, and deletes or renumbers
\* no thought; whenever a call can be made, the release command run on a stored
\* thought, whatever its current state, leaves neither that thought nor any of
\* its events, and a database that a reindex leaves unchanged when it exits
\* with 0.
C24_SoftAndHardReleaseDistinct ==
    /\ [][(Calls("TransitionPostTendResolutionStrict") /\ last'.arg = <<StateReleased>>) =>
            LET id == last'.id
            IN /\ {r.id : r \in db'.thoughts} = {r.id : r \in db.thoughts}
               /\ Thought(db', id).current_state = StateReleased
               /\ Thought(db', id).created_at = Thought(db, id).created_at
               /\ db.events \subseteq db'.events
               /\ Cardinality(EventsOf(db', id)) = Cardinality(EventsOf(db, id)) + 1]_vars
    /\ [](last = Idle =>
            \A r \in db.thoughts :
                LET c == cmdRelease(db, r.id, TRUE)
                IN /\ \A q \in c.db.thoughts : q.created_at # r.created_at
                   /\ \A e \in c.db.events : \A old \in EventsOf(db, r.id) : e.id # old.id
                   /\ Cardinality(c.db.thoughts) = Cardinality(db.thoughts) - 1
                   /\ c.code = 0 =>
                        /\ {q.id : q \in c.db.thoughts} = 1 .. Cardinality(c.db.thoughts)
                        /\ ReindexThoughtIDs(c.db, "none").db.thoughts = c.db.thoughts)

\* Thought 1 has been resolved to released and is stored with its two events; a
\* second thought is stored after it.
C24_Witness ==
    /\ last.op = "TransitionPostTendResolutionStrict"
    /\ last.arg = <<StateReleased>>
    /\ last.id = 1
    /\ Thought(db, 1).current_state = StateReleased
    /\ Cardinality(EventsOf(db, 1)) = 2
    /\ Has(db, 2)
    /\ cmdRelease(db, 1, TRUE).code = 0
    /\ {r.id : r \in cmdRelease(db, 1, TRUE).db.thoughts} = {1}

C26_ChangedIffDiffersFromPrevious ==
    \A i \in 1 .. Len(notice.calls) :
        notice.calls[i].changed <=> (i = 1 \/ notice.calls[i].n # notice.calls[i - 1].n)

\* The example: did-count-change(5), (5), (7) have returned true, false, true.
C26_Witness ==
    notice.calls = <<[n |-> 5, changed |-> TRUE], [n |-> 5, changed |-> FALSE],
                     [n |-> 7, changed |-> TRUE]>>

C28_MigrateIdempotent ==
    /\ [][Calls("Migrate") =>
            /\ MaxOf(schema'.versions) >= MaxOf(schema.versions)
            /\ schema.versions \subseteq schema'.versions
            /\ MaxOf(schema.versions) >= SchemaVersion => schema' = schema]_vars
    /\ []((last.op = "Migrate" /\ last.arg = <<"">>) =>
            \A fault \in MigrateFaults : Migrate(schema, fault).db = schema)

\* A call has found the version recorded by an earlier call of this run and
\* returned nil.
C28_Witness ==
    /\ last.op = "Migrate"
    /\ last.arg = <<"">>
    /\ last.id = SchemaVersion
    /\ schema.applied = 1

\* C29: a failing Migrate call creates no table and no index and records no
\* version; in every state the row SchemaVersion is recorded only with all
\* tables and indexes; and while the recorded version is below SchemaVersion a
\* call that meets no failure applies the whole migration.
C29_MigrateAllOrNothing ==
    /\ [][(Calls("Migrate") /\ last'.arg # <<"">>) =>
            /\ schema'.tables = schema.tables
            /\ schema'.indexes = schema.indexes
            /\ schema'.versions = schema.versions]_vars
    /\ [](SchemaVersion \in schema.versions =>
            schema.tables = Tables /\ schema.indexes = Indexes)
    /\ [](MaxOf(schema.versions) < SchemaVersion =>
            LET r == Migrate(schema, "none")
            IN /\ r.ok
               /\ SchemaVersion \in r.db.versions
               /\ r.db.tables = Tables /\ r.db.indexes = Indexes)

\* The insert of the version row has failed on a file without tables: only
\* schema_migrations exists, and it is empty.
C29_Witness ==
    /\ last.op = "Migrate"
    /\ last.arg = <<"migrate: record schema version">>
    /\ schema.migrations
    /\ schema.versions = {}
    /\ schema.tables = {}
    /\ schema.indexes = {}

\* This step commits the transaction of the invocation p.
Committed(p) ==
    /\ sqlite.tx[p].pc = "written"
    /\ sqlite'.tx[p].pc = "none"
    /\ sqlite'.commits = sqlite.commits + 1

\* C30: under every interleaving of the statements of two invocations, each
\* commit leaves the database that the same call, run as one step on the
\* database found at the commit, leaves, with an event whose previous_state is
\* the state current at the commit; and in every state tend_counter is the
\* number of committed mark-tended calls and every commit has its event stored.
C30_InterleavedTransactionsSerializable ==
    /\ [][\A p \in Invocations :
            Committed(p) =>
                LET x == sqlite.tx[p]
                    r == Atomic(db, x, SettleDuration)
                IN /\ r.ok
                   /\ db' = r.db
                   /\ \E e \in db'.events \ db.events :
                        e.previous_state = {Thought(db, x.id).current_state}]_vars
    /\ [](\A r \in db.thoughts :
            /\ r.tend_counter = sqlite.marked
            /\ r.applied = sqlite.commits
            /\ Cardinality(EventsOf(db, r.id)) = sqlite.commits)

\* Two transactions were open on the thought at once: one has committed its
\* mark-tended, the other was refused by SQLite and rolled back, and a later
\* resolve has committed.
C30_Witness ==
    /\ sqlite.commits = 2
    /\ sqlite.marked = 1
    /\ \E p \in Invocations : sqlite.tx[p].err = "update thoughts: database is locked"
    /\ \E r \in db.thoughts : r.current_state = StateResting /\ r.tend_counter = 1

\* The ids of the thoughts of T in the order of the time in column col, then id.
RECURSIVE ByTimeThenId(_, _)
ByTimeThenId(T, col) ==
    IF T = {} THEN <<>>
    ELSE LET a == CHOOSE x \in T : \A y \in T :
                      x[col] < y[col] \/ (x[col] = y[col] /\ x.id <= y.id)
         IN <<a.id>> \o ByTimeThenId(T \ {a}, col)

\* The ids of the thoughts of a listing, in the order listed.
ListedIds(listing) == [i \in 1 .. Len(listing.thoughts) |-> listing.thoughts[i].id]

\* C31: every page (limit, offset) of a listing holds the positions offset + 1
\* to offset + limit of its thoughts in the order of updated_at then id (all
\* but archived thoughts, and the thoughts of one state) or eligibility_at then
\* id (the tend-eligible thoughts).
C31_ListingsArePagesInTimeOrder ==
    \A limit \in Limits \ {0} : \A offset \in Offsets \ {-1} :
        /\ ListedIds(ListThoughtsByPagination(db, limit, offset))
            = Page(ByTimeThenId({r \in db.thoughts : r.current_state # StateArchived},
                                "updated_at"), limit, offset)
        /\ ListedIds(ListTendThoughtsByPagination(db, limit, offset, now))
            = Page(ByTimeThenId(TendReady(db, now), "eligibility_at"), limit, offset)
        /\ \A filter \in States :
            ListedIds(FilterViewByPagination(db, limit, offset, filter))
                = Page(ByTimeThenId({r \in db.thoughts : r.current_state = filter},
                                    "updated_at"), limit, offset)

\* The ids shown by the pages of the unfiltered listing, of the page size limit.
Shown(s, limit) ==
    UNION {{t.id : t \in {ListThoughtsByPagination(s, limit, page * limit).thoughts[i] :
                            i \in 1 .. Len(ListThoughtsByPagination(s, limit,
                                                                    page * limit).thoughts)}}
           : page \in 0 .. Cardinality(s.thoughts)}

Rejected(r, err) == ~r.ok /\ r.err = err /\ r.db = db

\* C33: whenever a call can be made, a create or update-content with an empty
\* content, a call with a non-positive id and a listing with a non-positive
\* limit or a negative offset return the invalid-argument error, whatever the
\* database would do, and change nothing; every stored content is non-empty,
\* and every successful create or update-content was given a non-empty content.
C33_InvalidArgumentsRejected ==
    /\ [](last = Idle =>
            /\ \A fault \in Faults :
                /\ Rejected(CreateThought(db, <<>>, now, SettleDuration, fault),
                            "create thought: content is empty")
                /\ \A id \in 1 .. MaxThoughts :
                    Rejected(UpdateThoughtContent(db, id, <<>>, now, fault),
                             "update thought content: content is empty")
                /\ \A id \in {-1, 0} :
                    /\ Rejected(AppendEvent(db, id, "captured", {}, {StateCaptured}, {}, now,
                                            fault),
                                "append event: invalid thought ID")
                    /\ Rejected(UpdateThoughtContent(db, id, <<"b">>, now, fault),
                                "update thought content: invalid thought ID")
                    /\ Rejected(MarkThoughtTended(db, id, {}, now, fault),
                                "mark thought tended: invalid thought ID")
                    /\ Rejected(TransitionPostTendResolutionStrict(db, id, StateResting, {},
                                                                   now, SettleDuration, fault),
                                "post-tend transition: invalid thought ID")
                    /\ Rejected(ToEvolve(db, id, now, fault), "to evolve: invalid thought ID")
                    /\ Rejected(ReleaseThought(db, id, fault),
                                "release thought: invalid thought ID")
            /\ \A id \in {-1, 0} :
                /\ GetThought(db, id) = NotFound("get thought: invalid thought ID")
                /\ GetTendThought(db, id, now) = NotFound("get thought: invalid thought ID")
            /\ \A limit \in Limits, offset \in Offsets :
                (limit <= 0 \/ offset < 0) =>
                    /\ ~ListThoughtsByPagination(db, limit, offset).ok
                    /\ ~ListTendThoughtsByPagination(db, limit, offset, now).ok
                    /\ \A filter \in States :
                        ~FilterViewByPagination(db, limit, offset, filter).ok)
    /\ [](\A r \in db.thoughts : r.content # <<>>)
    /\ [][(Calls("CreateThought") \/ Calls("UpdateThoughtContent")) =>
            last'.arg # <<>>]_vars

\* A thought is stored with the content given to a successful update-content,
\* and an update-content with an empty content is refused in this state.
C33_Witness ==
    /\ last = Idle
    /\ \E r \in db.thoughts : r.content = <<"b">>
    /\ \E r \in db.thoughts :
        UpdateThoughtContent(db, r.id, <<>>, now, "none").err
            = "update thought content: content is empty"
    /\ ~CreateThought(db, <<>>, now, SettleDuration, "none").ok

\* C34: with the clock of the model, which only advances, no step lowers the
\* updated_at of a thought it keeps (a thought is followed by its created_at),
\* no updated_at is earlier than the thought's created_at, a successful
\* update-content, mark-tended, resolve or evolve-direct sets the thought's
\* updated_at to the time of the call, and a successful append-event or reindex
\* leaves every updated_at as it was.
C34_UpdatedAtMonotonic ==
    /\ [](\A r \in db.thoughts : r.updated_at >= r.created_at)
    /\ [][/\ now' >= now
          /\ \A r \in db.thoughts : \A q \in db'.thoughts :
                r.created_at = q.created_at => q.updated_at >= r.updated_at
          /\ (Calls("UpdateThoughtContent") \/ \E op \in Transitions : Calls(op)) =>
                /\ Thought(db', last'.id).updated_at = now
                /\ ScanThought(Thought(db', last'.id)).updated_at = now
          /\ (Calls("AppendEvent") \/ Calls("ReindexThoughtIDs")) =>
                {<<r.created_at, r.updated_at>> : r \in db'.thoughts}
                    = {<<r.created_at, r.updated_at>> : r \in db.thoughts}]_vars

\* Thought 1 has been evolved after its creation: its updated_at is later than
\* its created_at.
C34_Witness ==
    /\ last.op = "ToEvolve"
    /\ Thought(db, last.id).updated_at > Thought(db, last.id).created_at
    /\ Thought(db, last.id).updated_at = now - 1

\* The add command that created r has written its captured event and returned.
Added(r) == \A p \in Invocations : ~(Running(p, "add", "created") /\ procs[p].created = r.created_at)

\* The events GetThought lists for r form a chain from capture to r's state.
Chained(r) ==
    LET evs == GetThought(db, r.id).events
    IN /\ Len(evs) >= 1
       /\ evs[1].kind = "captured"
       /\ evs[1].previous_state = {}
       /\ evs[1].next_state = {StateCaptured}
       /\ \A i \in 2 .. Len(evs) :
            evs[i].kind = "state_change" => evs[i].previous_state = evs[i - 1].next_state
       /\ evs[Len(evs)].next_state = {r.current_state}

\* C35: for every stored thought captured through the add command, its events
\* in the order of (at, id) start with the captured event (no previous_state,
\* next_state captured), the previous_state of every state_change event is the
\* next_state of the event before it, and the next_state of the last event is
\* the thought's current_state.
C35_EventChainContinuity == \A r \in db.thoughts : Added(r) => Chained(r)

\* The event that the add command of p writes in this step is attached to the
\* thought that the command created.
WrittenForItsThought(p) ==
    \E r \in db'.thoughts : r.id = procs[p].id /\ r.created_at = procs[p].created

\* C36: in every state reached through the commands add, tend, evolve and
\* release of several invocations, every event's thought_id is the id of a
\* stored thought, and the captured event of an add is attached to the thought
\* that this add created.
C36_ReferentialIntegrity ==
    /\ [](ForeignKeyCheck(db) = {})
    /\ [][\A p \in Invocations :
            Running(p, "add", "created") /\ procs'[p].pc = "exit" => WrittenForItsThought(p)]_vars

\* The id the tend flow of p holds is still the id of the thought that
\* GetTendThought returned to it.
SameThought(p) ==
    \E r \in db.thoughts : r.id = procs[p].id /\ r.created_at = procs[p].created

\* The thought under the id the tend flow of p holds can be tended now.
StillTendable(p) ==
    \E r \in db.thoughts : /\ r.id = procs[p].id
                           /\ r.current_state \in {StateCaptured, StateResting}
                           /\ r.eligibility_at <= now

\* This step is a store call of the tend flow of p that wrote to the database.
TendWrites(p) == procs[p].cmd = "tend" /\ procs'[p] # procs[p] /\ db' # db

\* C37: in the tend flow the thought whose content is updated, that is marked
\* tended and that is resolved is the thought GetTendThought returned, and it
\* is captured or resting and eligible when it is marked, whatever another
\* invocation runs between the store calls of the flow.
C37_TendFlowKeepsItsThought ==
    [][\A p \in Invocations :
         /\ TendWrites(p) => SameThought(p)
         /\ TendWrites(p) /\ procs[p].pc = "saved" => StillTendable(p)]_vars

\* The thought the tend flow of p was started on, where it is stored now.
Tended(p, s) == {r \in s.thoughts : r.created_at = procs[p].created}

\* C38: when the tend flow returns, with success or with an error, its thought
\* is in the state it had before the flow or in resting, evolved, released or
\* archived; and a thought in tended is held by a tend flow about to resolve
\* it, or is one that peony tend <id> can be started on, tend being the only
\* command that leads to resting, released or archived.
C38_NeverStuckInTended ==
    /\ [][\A p \in Invocations :
            procs[p].cmd = "tend" /\ procs'[p].pc = "exit"
               => \A r \in Tended(p, db') :
                    r.current_state \in {procs[p].before, StateResting, StateEvolved,
                                         StateReleased, StateArchived}]_vars
    /\ [](\A r \in db.thoughts :
            r.current_state = StateTended
               => \/ \E p \in Invocations : Running(p, "tend", "marked") /\ procs[p].id = r.id
                  \/ \E t \in now .. MaxCliTime + 1 : GetTendThought(db, r.id, t).ok)

\* The counts the file of the last notice holds: none or one.
Persisted(file) == {ScanCount(text).prev : text \in {t \in file : ScanCount(t).ok}}

\* C39: an invocation prints the tend notice iff its command is none of add,
\* tend, help and version, its count n is positive and n is not the persisted
\* count; an invocation with n = 0 or with one of those commands prints nothing
\* and leaves the persisted count as it is; every invocation that prints leaves
\* n persisted; and no two notices in a row announce the same count.
C39_NoticeOncePerChange ==
    /\ [][last = Idle /\ last' # Idle =>
            LET cmd == last'.arg[1]
                n == last'.id
                printed == notice'.calls # notice.calls
                excluded == CommandOf(cmd) \in {"add", "tend", "help", "version"}
            IN /\ printed <=> (~excluded /\ n > 0 /\ n \notin Persisted(notice.file))
               /\ excluded \/ n = 0 => ~printed /\ notice'.file = notice.file
               /\ printed => Persisted(notice'.file) = {n}]_vars
    /\ [](\A i \in 1 .. Len(notice.calls) - 1 : notice.calls[i].n # notice.calls[i + 1].n)

\* The counts 1 and then 2 were announced, and the invocation after them,
\* peony a with the count 1, printed nothing and left 2 persisted.
C39_Witness ==
    /\ Len(notice.calls) = 2
    /\ notice.calls[1].n = 1 /\ notice.calls[2].n = 2
    /\ last # Idle /\ last.op = "main" /\ last.arg = <<"a">> /\ last.id = 1
    /\ Persisted(notice.file) = {2}

\* C40: on every committed database, with dense or sparse ids and with or
\* without events of no thought, the reindex by temporary negative ids and the
\* reindex by rebuilding the tables return the same result and leave the same
\* thoughts, the same events with the same owners and the same next id for a
\* create.
C40_ReindexImplementationsEquivalent ==
    last = Idle =>
        LET negative == ReindexThoughtIDs(db, "none")
            swapped == ReindexThoughtIDsBySwap(db, "none")
        IN /\ negative.ok = swapped.ok
           /\ negative.db.thoughts = swapped.db.thoughts
           /\ negative.db.events = swapped.db.events
           /\ NextRowid(negative.db.thoughts, negative.db.seq.thoughts)
                = NextRowid(swapped.db.thoughts, swapped.db.seq.thoughts)
====
